---- MODULE Spec2Model ----
(***************************************************************************)
(* Order-creation pipeline of the POS backend (OrdersService and the       *)
(* StockService it calls), over a MongoDB connection.                      *)
(*                                                                         *)
(* Every action is one database call of a createOrder invocation together  *)
(* with the synchronous code that runs after it until the next await: the  *)
(* node.js event loop interleaves concurrent requests only at awaits.      *)
(***************************************************************************)
EXTENDS Integers, Sequences, FiniteSets, TLC

(***************************************************************************)
(* JavaScript numbers.  Every number of the pipeline (prices, totals, tax, *)
(* discount) is an IEEE-754 double.  A double is kept exactly, as a sign   *)
(* and a magnitude counted in units of 2^-62; the magnitude is a little-   *)
(* endian sequence of NLimbs limbs in base 2^15, so that every partial     *)
(* result fits a 32-bit integer.  All doubles d with 2^-10 <= |d| < 2^28   *)
(* and all their sums, differences and integer multiples are whole numbers *)
(* of units; Round53 rounds an exact result to 53 significant bits, ties   *)
(* to even, as the hardware does.                                          *)
(***************************************************************************)
LimbBits == 15

LimbBase == 32768

NLimbs == 6

FracBits == 62

Limbs == 1..NLimbs

RECURSIVE Pow2(_)
Pow2(k) == IF k = 0 THEN 1 ELSE 2 * Pow2(k - 1)

BigZero == [i \in Limbs |-> 0]

BigPow2(k) == [i \in Limbs |-> IF i - 1 = k \div LimbBits THEN Pow2(k % LimbBits) ELSE 0]

\* limbs i..NLimbs of a + b, given the carry into limb i
RECURSIVE AddFrom(_, _, _, _)
AddFrom(a, b, i, carry) ==
    IF i > NLimbs THEN <<>>
    ELSE LET sum == a[i] + b[i] + carry
         IN  <<sum % LimbBase>> \o AddFrom(a, b, i + 1, sum \div LimbBase)

BigAdd(a, b) == AddFrom(a, b, 1, 0)

\* -1, 0, 1 as a < b, a = b, a > b, comparing limbs i, i-1, ..., 1
RECURSIVE BigCmpFrom(_, _, _)
BigCmpFrom(a, b, i) ==
    IF i = 0 THEN 0
    ELSE IF a[i] < b[i] THEN -1
    ELSE IF a[i] > b[i] THEN 1
    ELSE BigCmpFrom(a, b, i - 1)

BigCmp(a, b) == BigCmpFrom(a, b, NLimbs)

\* limbs i..NLimbs of a - b, given the borrow out of limb i
RECURSIVE SubFrom(_, _, _, _)
SubFrom(a, b, i, borrow) ==
    IF i > NLimbs THEN <<>>
    ELSE LET diff == a[i] - b[i] - borrow
         IN  IF diff < 0
             THEN <<diff + LimbBase>> \o SubFrom(a, b, i + 1, 1)
             ELSE <<diff>> \o SubFrom(a, b, i + 1, 0)

\* a - b, for a >= b
BigSub(a, b) == SubFrom(a, b, 1, 0)

\* limbs i..NLimbs of a * k, given the carry into limb i, for 0 <= k < 2^15
RECURSIVE MulFrom(_, _, _, _)
MulFrom(a, k, i, carry) ==
    IF i > NLimbs THEN <<>>
    ELSE LET prod == a[i] * k + carry
         IN  <<prod % LimbBase>> \o MulFrom(a, k, i + 1, prod \div LimbBase)

BigMulSmall(a, k) == MulFrom(a, k, 1, 0)

\* long division of a by d, 0 < d < 2^15, from limb i down, given the remainder
\* of the limbs above: the last remainder followed by the quotient's limbs 1..i
RECURSIVE DivFrom(_, _, _, _)
DivFrom(a, d, i, rem) ==
    IF i = 0 THEN <<rem>>
    ELSE LET cur == rem * LimbBase + a[i]
         IN  DivFrom(a, d, i - 1, cur % d) \o <<cur \div d>>

\* <<quotient, remainder>> of a by d; DivFrom lists the remainder first
BigDivMod(a, d) ==
    LET r == DivFrom(a, d, NLimbs, 0)
    IN  <<[i \in Limbs |-> r[i + 1]], r[1]>>

RECURSIVE IntBitLen(_)
IntBitLen(x) == IF x = 0 THEN 0 ELSE 1 + IntBitLen(x \div 2)

RECURSIVE BigBitLenFrom(_, _)
BigBitLenFrom(a, i) ==
    IF i = 0 THEN 0
    ELSE IF a[i] # 0 THEN LimbBits * (i - 1) + IntBitLen(a[i])
    ELSE BigBitLenFrom(a, i - 1)

BigBitLen(a) == BigBitLenFrom(a, NLimbs)

\* a mod 2^s
BigLowBits(a, s) ==
    [i \in Limbs |->
        IF i - 1 < s \div LimbBits THEN a[i]
        ELSE IF i - 1 = s \div LimbBits THEN a[i] % Pow2(s % LimbBits)
        ELSE 0]

BigBitAt(a, s) == (a[s \div LimbBits + 1] \div Pow2(s % LimbBits)) % 2

MantissaBits == 53

\* a followed by a fraction (sticky = the fraction is not zero), rounded to
\* 53 significant bits, ties to even; needs BigBitLen(a) >= 53 when sticky
RoundSticky(a, sticky, halfOfSticky) ==
    LET t == BigBitLen(a)
        s == t - MantissaBits
    IN  IF s <= 0
        THEN \* only the fraction is dropped: halfOfSticky is -1, 0, 1 as it is
             \* below, at or above one half
             IF sticky /\ (halfOfSticky > 0 \/ (halfOfSticky = 0 /\ a[1] % 2 = 1))
             THEN BigAdd(a, BigPow2(0))
             ELSE a
        ELSE LET low  == BigLowBits(a, s)
                 c    == BigCmp(low, BigPow2(s - 1))
                 kept == BigSub(a, low)
                 up   == c > 0 \/ (c = 0 /\ (sticky \/ BigBitAt(a, s) = 1))
             IN  IF up THEN BigAdd(kept, BigPow2(s)) ELSE kept

Round53(a) == RoundSticky(a, FALSE, -1)

Num(neg, mag) == [neg |-> neg /\ mag # BigZero, mag |-> mag]

Zero == Num(FALSE, BigZero)

\* the double nearest to the decimal n / 1000 (a number as a JSON body or a
\* stored document spells it), for an integer n
FromMilli(n) ==
    LET abs == IF n < 0 THEN -n ELSE n
        qr  == BigDivMod(BigMulSmall(BigPow2(FracBits), abs), 1000)
        q   == qr[1]
        r   == qr[2]
        h   == IF 2 * r > 1000 THEN 1 ELSE IF 2 * r = 1000 THEN 0 ELSE -1
    IN  Num(n < 0, RoundSticky(q, r # 0, h))

FromInt(k) == FromMilli(1000 * k)

FNeg(x) == Num(~x.neg, x.mag)

\* x + y
FAdd(x, y) ==
    IF x.neg = y.neg THEN Num(x.neg, Round53(BigAdd(x.mag, y.mag)))
    ELSE IF BigCmp(x.mag, y.mag) >= 0 THEN Num(x.neg, Round53(BigSub(x.mag, y.mag)))
    ELSE Num(y.neg, Round53(BigSub(y.mag, x.mag)))

\* x - y
FSub(x, y) == FAdd(x, FNeg(y))

\* x * k for an integer k, |k| < 2^15
FMulInt(x, k) ==
    Num(x.neg # (k < 0), Round53(BigMulSmall(x.mag, IF k < 0 THEN -k ELSE k)))

\* Math.abs(x)
FAbs(x) == Num(FALSE, x.mag)

\* x > y
FGt(x, y) ==
    IF x.neg # y.neg THEN y.neg
    ELSE IF x.neg THEN BigCmp(x.mag, y.mag) < 0
    ELSE BigCmp(x.mag, y.mag) > 0


(***************************************************************************)
(* JavaScript values of the request and the documents.  A number is        *)
(* Number(d) for a double d; a key an object lacks reads as Undefined.     *)
(***************************************************************************)
Undefined == [t |-> "undefined"]

Null == [t |-> "null"]

Str(s) == [t |-> "string", v |-> s]

Number(d) == [t |-> "number", v |-> d]

Date == [t |-> "date"]

Get(obj, key) == IF key \in DOMAIN obj THEN obj[key] ELSE Undefined

\* the value a default names: a function default is called
DefaultOf(defaultValue) == IF defaultValue.t = "function" THEN Date ELSE defaultValue

\* result[key] === undefined || result[key] === null || result[key] === ''
IsBlank(v) == v.t \in {"undefined", "null"} \/ (v.t = "string" /\ v.v = "")

\* a default that also replaces a zero, as data[key] || defaultValue would
applyDefaultsToFalsy(data, defaults) ==
    [key \in DOMAIN data \cup DOMAIN defaults |->
        IF key \in DOMAIN defaults
           /\ (IsBlank(Get(data, key)) \/ Get(data, key) = Number(Zero))
        THEN DefaultOf(defaults[key])
        ELSE data[key]]

applyDefaults(data, defaults) ==
    [key \in DOMAIN data \cup DOMAIN defaults |->
        IF key \in DOMAIN defaults /\ IsBlank(Get(data, key))
        THEN DefaultOf(defaults[key])
        ELSE data[key]]

DEFAULT_VALUES_order ==
    [discount |-> Number(Zero), customerName |-> Str(""), tax |-> Number(Zero),
     timestamp |-> [t |-> "function"]]

\* createOrderDto.discount || 0
DiscountOrZero(dto) ==
    LET d == Get(dto, "discount")
    IN  IF d.t = "number" /\ d.v # Zero THEN d.v ELSE Zero

\* tolerance = 0.01
tolerance == FromMilli(10)

\* Math.abs(computed - received) > tolerance
Mismatch(computed, received) == FGt(FAbs(FSub(computed, received)), tolerance)

\* computedTotal + createOrderDto.tax - (createOrderDto.discount || 0)
ComputeFinalTotal(computedTotal, dto) ==
    FSub(FAdd(computedTotal, dto.tax.v), DiscountOrZero(dto))


(***************************************************************************)
(* The database and the requests in flight.                                *)
(***************************************************************************)
VARIABLES
    products,   \* the products collection: product id -> document
    orders,     \* the orders collection, a set of documents
    movements,  \* the stock movements collection, a set of documents
    call,       \* per createOrder invocation: its locals and its place
    log,        \* what the logger wrote at level error
    faults,     \* infrastructure failures the database may still produce
    clients,    \* per invocation: the kind of client that may call it
    deployment, \* what the connection is to: a replica set or a standalone server
    purchases,  \* the purchases collection: purchase id -> document
    salesReturns, \* the sales returns collection: return id -> document
    job,        \* per back-office worker: the service method it is in
    seq         \* the ids given out so far, per collection

\* the state of the back office
office == <<purchases, salesReturns, job, seq>>

vars == <<products, orders, movements, call, log, faults, clients, deployment, office>>

ProductIds == {"p1", "p2", "p3"}

NumCalls == 2

Calls == 1..NumCalls

MaxItems == 2

MaxQuantity == 4

MaxFaults == 1

\* the failures the database may produce for the one client of SpecSolo
MaxSoloFaults == 2

\* back-office users at work at once
NumWorkers == 2

Workers == 1..NumWorkers

\* requests the back office sends, where they are counted
MaxRequests == 3

\* purchases and sales returns ever created
MaxPurchases == 1

MaxReturns == 1

\* the catalogue the shop starts with, prices in thousandths; "p3" is an id no
\* product has
PriceMilli == [p1 |-> 4990, p2 |-> 2000, p3 |-> 1000]

Catalogue ==
    [p1 |-> [name |-> "tea", sellingPrice |-> FromMilli(PriceMilli.p1),
             category |-> "drinks", stock |-> 5, minStock |-> 1, supplier |-> "acme",
             description |-> "green tea", version |-> 0],
     p2 |-> [name |-> "rice", sellingPrice |-> FromMilli(PriceMilli.p2),
             category |-> "food", stock |-> 3, minStock |-> 3, supplier |-> "acme",
             description |-> "", version |-> 0]]

(***************************************************************************)
(* Requests.  A body is what the client wrote: line items and the money    *)
(* fields as decimals, in thousandths, discount possibly left out.  The    *)
(* CreateOrderDto is the body parsed: every number a double.               *)
(***************************************************************************)
Body(items, total, tax, discount, finalTotal) ==
    [items |-> items, total |-> total, tax |-> tax, discount |-> discount,
     finalTotal |-> finalTotal]

\* discount: <<>> when the body has no discount, <<d>> when it has
Parse(body) ==
    LET base == [items |-> [i \in 1..Len(body.items) |->
                               [product  |-> body.items[i].product,
                                quantity |-> body.items[i].quantity,
                                subtotal |-> Number(FromMilli(body.items[i].subtotal))]],
                 total |-> Number(FromMilli(body.total)),
                 tax |-> Number(FromMilli(body.tax)),
                 finalTotal |-> Number(FromMilli(body.finalTotal))]
    IN  IF body.discount = <<>> THEN base
        ELSE [key \in DOMAIN base \cup {"discount"} |->
                 IF key = "discount" THEN Number(FromMilli(body.discount[1]))
                 ELSE base[key]]

\* what the lines <<product, quantity>> cost at catalogue prices
RECURSIVE SumMilli(_)
SumMilli(lines) ==
    IF lines = <<>> THEN 0
    ELSE PriceMilli[Head(lines)[1]] * Head(lines)[2] + SumMilli(Tail(lines))

\* sequences of at most n line choices <<product, quantity>>
RECURSIVE LinesUpTo(_, _)
LinesUpTo(choices, n) ==
    IF n = 0 THEN {<<>>}
    ELSE LET shorter == LinesUpTo(choices, n - 1)
         IN  shorter \cup {Append(l, ch) : l \in shorter, ch \in choices}

\* the body of a client that is off by dTotal on every amount of its lines and
\* on the total, and by dFinal on the final total
ShiftedBody(lines, tax, discount, dTotal, dFinal) ==
    Body([i \in 1..Len(lines) |->
             [product  |-> lines[i][1], quantity |-> lines[i][2],
              subtotal |-> PriceMilli[lines[i][1]] * lines[i][2] + dTotal]],
         SumMilli(lines) + dTotal, tax, discount,
         SumMilli(lines) + tax - (IF discount = <<>> THEN 0 ELSE discount[1]) + dFinal)

\* the body of a client that claims one unit of money for whatever it orders
FlatBody(lines, tax, discount) ==
    Body([i \in 1..Len(lines) |->
             [product |-> lines[i][1], quantity |-> lines[i][2], subtotal |-> 1000]],
         1000, tax, discount, 1000)

HonestBody(lines) == ShiftedBody(lines, 0, <<>>, 0, 0)

noError == [kind |-> "none"]

noTx == [open |-> FALSE, snap |-> <<>>, written |-> {}, stock |-> <<>>,
         orders |-> {}, movements |-> {}]

idleCall ==
    [pc |-> "idle", body |-> <<>>, dto |-> <<>>, k |-> 0, r |-> 0, items |-> <<>>, computedTotal |-> Zero,
     computedFinalTotal |-> Zero, path |-> "none", updatedProducts |-> <<>>,
     readPrices |-> <<>>, tx |-> noTx, error |-> noError, result |-> "none"]

\* a worker between two requests
idleJob == [pc |-> "idle", op |-> "none", product |-> "-", id |-> 0, dto |-> <<>>,
            result |-> "none", docs |-> {}, tx |-> noTx,
            plan |-> [delta |-> 0, quantity |-> 0, type |-> "-", next |-> "-"]]

\* a worker who is away
offJob == [idleJob EXCEPT !.pc = "off"]


(***************************************************************************)
(* The clients: which requests each invocation may carry.                  *)
(***************************************************************************)
Quantities == 1..MaxQuantity

\* honest orders for products on sale: of up to MaxItems lines, of one line
BasketBodies ==
    {HonestBody(l) : l \in LinesUpTo({"p1", "p2"} \X Quantities, MaxItems) \ {<<>>}}

SingleBodies == {HonestBody(<<ch>>) : ch \in {"p1", "p2"} \X Quantities}

\* any order, honest or not, priced right or wrong, for any product id
Offsets == {-11, -10, 0, 10, 11}

AnyLines == LinesUpTo(ProductIds \X {1, 3}, MaxItems)

AnyBodies ==
    {ShiftedBody(l, tax, discount, dTotal, dFinal) :
        l \in AnyLines, tax \in {0, 500}, discount \in {<<>>, <<250>>},
        dTotal \in Offsets, dFinal \in Offsets}
    \cup {FlatBody(l, 0, <<>>) : l \in AnyLines}

\* one line for the second product, of a quantity the DTO lets through
LooseBodies == {HonestBody(<<ch>>) : ch \in {"p2"} \X {-1, 0, 4}}

\* one unit of the first product
OneBodies == {HonestBody(<<<<"p1", 1>>>>)}

Bodies == [basket |-> BasketBodies, single |-> SingleBodies, anyone |-> AnyBodies,
           one |-> OneBodies, loose |-> LooseBodies, nobody |-> {}]

\* the requests as they reach create: body and parsed body
Requests == [kind \in DOMAIN Bodies |-> {<<body, Parse(body)>> : body \in Bodies[kind]}]

With(obj, key, val) == [f \in DOMAIN obj \cup {key} |-> IF f = key THEN val ELSE obj[f]]

Put(c, rec) == call' = [call EXCEPT ![c] = rec]

\* the exception reaches the caller of create
Throw(c, rec, err) == Put(c, [rec EXCEPT !.pc = "done", !.error = err, !.result = "failed"])

(***************************************************************************)
(* OrdersService.create: the request arrives; an empty order is rejected,  *)
(* any other goes on to validateAndComputeTotals.                          *)
(***************************************************************************)
Create(c) ==
    /\ call[c].pc = "idle"
    /\ \E request \in Requests[clients[c]] :
          LET me == [call[c] EXCEPT !.body = request[1], !.dto = request[2]]
          IN  IF Len(me.dto.items) = 0
              THEN Throw(c, me, [kind |-> "EmptyOrder"])
              ELSE Put(c, [me EXCEPT !.pc = "validate", !.k = 1])
    /\ UNCHANGED <<products, orders, movements, log, faults, clients, deployment, office>>

\* connection.readyState: disconnected, connected, connecting, disconnecting
ReadyStates == {0, 1, 2, 3}

\* connection.db.admin: a method of the driver's Db, there on every connection
AdminDefined == TRUE

\* this.connection.readyState === 1 && this.connection.db?.admin !== undefined
SupportsTransactions(readyState) == readyState = 1 /\ AdminDefined

(***************************************************************************)
(* validateAndComputeTotals: one findById of the loop; after the last one  *)
(* the totals are compared and create probes the connection.               *)
(***************************************************************************)
ValidateStep(c) ==
    LET me   == call[c]
        item == me.dto.items[me.k]
    IN
    /\ me.pc = "validate"
    /\ IF item.product \notin DOMAIN products
       THEN Throw(c, me, [kind |-> "NotFound", product |-> item.product])
       ELSE LET price          == products[item.product].sellingPrice
                actualSubtotal == FMulInt(price, item.quantity)
                computedTotal  == FAdd(me.computedTotal, actualSubtotal)
                computedFinalTotal == ComputeFinalTotal(computedTotal, me.dto)
                next == [me EXCEPT
                           !.computedTotal = computedTotal,
                           !.readPrices = Append(@, price),
                           !.items = Append(@, [product |-> item.product,
                                                quantity |-> item.quantity,
                                                subtotal |-> actualSubtotal])]
            IN  IF me.k < Len(me.dto.items)
                THEN Put(c, [next EXCEPT !.k = me.k + 1])
                ELSE IF Mismatch(computedTotal, me.dto.total.v)
                THEN Throw(c, next, [kind |-> "TotalMismatch",
                                     expected |-> computedTotal,
                                     received |-> me.dto.total.v])
                ELSE IF Mismatch(computedFinalTotal, me.dto.finalTotal.v)
                THEN Throw(c, next, [kind |-> "FinalTotalMismatch",
                                     expected |-> computedFinalTotal,
                                     received |-> me.dto.finalTotal.v])
                ELSE \E readyState \in ReadyStates :
                      LET supportsTransactions == SupportsTransactions(readyState)
                      IN
                        Put(c, [next EXCEPT
                                  !.computedFinalTotal = computedFinalTotal,
                                  !.k = 1,
                                  !.path = IF supportsTransactions THEN "transaction"
                                           ELSE "atomic",
                                  !.pc = IF supportsTransactions THEN "txReserve"
                                         ELSE "reserve"])

\* a validation loop that takes the stock of each line as it goes
ValidateItemReserving(c) ==
    LET p == call[c].dto.items[call[c].k].product
    IN
    /\ ValidateStep(c)
    /\ products' = IF p \in DOMAIN products
                   THEN [products EXCEPT ![p].stock = @ - call[c].dto.items[call[c].k].quantity]
                   ELSE products
    /\ UNCHANGED <<orders, movements, log, faults, clients, deployment, office>>

ValidateItem(c) ==
    /\ ValidateStep(c)
    /\ UNCHANGED <<products, orders, movements, log, faults, clients, deployment, office>>

\* the order as the client sent it: { items, total, finalTotal, ...createOrderDto }
OrderDocumentAsSent(c) ==
    With(applyDefaults([call[c].dto EXCEPT
                           !.items = [i \in 1..Len(@) |->
                                         [product |-> @[i].product,
                                          quantity |-> @[i].quantity,
                                          subtotal |-> @[i].subtotal.v]]],
                       DEFAULT_VALUES_order),
         "_id", c)

\* { ...createOrderDto, items, total: computedTotal, finalTotal: computedFinalTotal }
\* with the defaults applied, as the document the driver stores under _id
OrderDocument(c) ==
    LET me == call[c]
        orderData == applyDefaults(
            [me.dto EXCEPT !.items = me.items,
                           !.total = Number(me.computedTotal),
                           !.finalTotal = Number(me.computedFinalTotal)],
            DEFAULT_VALUES_order)
    IN  With(orderData, "_id", c)

\* a movement that does not say which order it belongs to
MovementDocumentUnreferenced(c, k) ==
    LET item == call[c].items[k]
    IN  [_id |-> <<c, k>>, productId |-> item.product, quantity |-> item.quantity,
         type |-> "out", reference |-> 0]

\* the document recordMovement stores for line k of the order of call c
MovementDocument(c, k) ==
    LET item == call[c].items[k]
    IN  [_id |-> <<c, k>>, productId |-> item.product, quantity |-> item.quantity,
         type |-> "out", reference |-> c]


(***************************************************************************)
(* MongoDB multi-document transactions: snapshot isolation.  The snapshot  *)
(* is taken by the first operation of the transaction; the transaction     *)
(* reads the snapshot and its own writes; its writes stay private until    *)
(* the commit.  A write to a document that another open transaction has    *)
(* written, or that was written after the snapshot, fails with a write     *)
(* conflict; a write outside any transaction waits for the transaction     *)
(* that has written the document.                                          *)
(***************************************************************************)
\* a filter that only asks for some stock
SufficientAnyLeft(stock, quantity) == stock > 0

\* the filter stock: {$gte: quantity} of both conditional updates
Sufficient(stock, quantity) == stock >= quantity

Snap(c) == IF call[c].tx.open THEN call[c].tx.snap ELSE products

TxStock(c, p) ==
    IF p \in call[c].tx.written THEN call[c].tx.stock[p] ELSE Snap(c)[p].stock

HeldByOther(c, p) ==
    \/ \E d \in Calls \ {c} : call[d].tx.open /\ p \in call[d].tx.written
    \/ \E w \in Workers : job[w].tx.open /\ p \in job[w].tx.written

\* a server on which any two open transactions conflict
WriteConflictWithAnyone(c, p) ==
    \/ \E d \in Calls \ {c} : call[d].tx.open
    \/ p \notin DOMAIN products
    \/ products[p].version # Snap(c)[p].version

WriteConflict(c, p) ==
    \/ HeldByOther(c, p)
    \/ p \notin DOMAIN products
    \/ products[p].version # Snap(c)[p].version

Opened(c) == [call[c].tx EXCEPT !.open = TRUE, !.snap = Snap(c)]

(***************************************************************************)
(* createWithTransaction                                                   *)
(***************************************************************************)
\* findOneAndUpdate({_id, stock: {$gte: quantity}}, {$inc: {stock: -quantity}}, {session})
TxReserve(c) ==
    LET me   == call[c]
        item == me.items[me.k]
        p    == item.product
        tx   == Opened(c)
    IN
    /\ me.pc = "txReserve"
    /\ IF deployment = "standalone"
       THEN Put(c, [me EXCEPT !.pc = "txAbort",
                              !.error = [kind |-> "TransactionsUnsupported"]])
       ELSE IF p \in DOMAIN Snap(c) /\ Sufficient(TxStock(c, p), item.quantity)
       THEN IF WriteConflict(c, p)
            THEN Put(c, [me EXCEPT !.tx = tx, !.pc = "txAbort",
                                   !.error = [kind |-> "WriteConflict", product |-> p]])
            ELSE Put(c, [me EXCEPT
                    !.tx = [tx EXCEPT
                              !.written = @ \cup {p},
                              !.stock = With(@, p, TxStock(c, p) - item.quantity)],
                    !.k  = IF me.k < Len(me.items) THEN me.k + 1 ELSE 1,
                    !.pc = IF me.k < Len(me.items) THEN "txReserve" ELSE "txInsertOrder"])
       ELSE Put(c, [me EXCEPT !.tx = tx, !.pc = "txReadBack"])
    /\ UNCHANGED <<products, orders, movements, log, faults, clients, deployment, office>>

\* the conditional update matched nothing: findById(item.product).session(session)
TxReadBack(c) ==
    LET me   == call[c]
        item == me.items[me.k]
        p    == item.product
    IN
    /\ me.pc = "txReadBack"
    /\ Put(c, [me EXCEPT
            !.pc = "txAbort",
            !.error = IF p \notin DOMAIN Snap(c)
                      THEN [kind |-> "NotFound", product |-> p]
                      ELSE [kind |-> "InsufficientStock", product |-> p,
                            available |-> TxStock(c, p), required |-> item.quantity]])
    /\ UNCHANGED <<products, orders, movements, log, faults, clients, deployment, office>>

\* orderModel.create([orderData], {session})
TxInsertOrder(c) ==
    LET me == call[c]
    IN
    /\ me.pc = "txInsertOrder"
    /\ \/ /\ Put(c, [me EXCEPT !.tx.orders = @ \cup {OrderDocument(c)},
                               !.k = 1, !.pc = "txRecordMovement"])
          /\ UNCHANGED faults
       \/ /\ faults > 0
          /\ faults' = faults - 1
          /\ Put(c, [me EXCEPT !.pc = "txAbort",
                               !.error = [kind |-> "DbError", op |-> "insertOrder"]])
    /\ UNCHANGED <<products, orders, movements, log, clients, deployment, office>>

\* stockService.recordMovementWithSession: findById in the session, then create
TxRecordMovement(c) ==
    LET me == call[c]
        p  == me.items[me.k].product
    IN
    /\ me.pc = "txRecordMovement"
    /\ \/ /\ IF p \notin DOMAIN Snap(c)
             THEN Put(c, [me EXCEPT !.pc = "txAbort",
                                    !.error = [kind |-> "NotFound", product |-> p]])
             ELSE Put(c, [me EXCEPT
                     !.tx.movements = @ \cup {MovementDocument(c, me.k)},
                     !.k  = IF me.k < Len(me.items) THEN me.k + 1 ELSE me.k,
                     !.pc = IF me.k < Len(me.items) THEN "txRecordMovement"
                            ELSE "txCommit"])
          /\ UNCHANGED faults
       \/ /\ faults > 0
          /\ faults' = faults - 1
          /\ Put(c, [me EXCEPT !.pc = "txAbort",
                               !.error = [kind |-> "DbError", op |-> "recordMovement"]])
    /\ UNCHANGED <<products, orders, movements, log, clients, deployment, office>>

\* session.commitTransaction(): the writes of the transaction become visible
TxCommit(c) ==
    LET me == call[c]
    IN
    /\ me.pc = "txCommit"
    /\ products' = [p \in DOMAIN products |->
                      IF p \in me.tx.written
                      THEN [products[p] EXCEPT !.stock = me.tx.stock[p],
                                               !.version = @ + 1]
                      ELSE products[p]]
    /\ orders' = orders \cup me.tx.orders
    /\ movements' = movements \cup me.tx.movements
    /\ Put(c, [me EXCEPT !.tx = noTx, !.pc = "done", !.result = "created"])
    /\ UNCHANGED <<log, faults, clients, deployment, office>>

\* an abort after updates that were made without the session: they stay
TxAbortKeepsWrites(c) ==
    LET me == call[c]
    IN
    /\ me.pc = "txAbort"
    /\ products' = [p \in DOMAIN products |->
                      IF p \in me.tx.written
                      THEN [products[p] EXCEPT !.stock = me.tx.stock[p],
                                               !.version = @ + 1]
                      ELSE products[p]]
    /\ log' = log \cup {[call |-> c, message |-> "Transaction failed and rolled back",
                         product |-> "-"]}
    /\ Put(c, [me EXCEPT !.tx = noTx, !.pc = "done", !.result = "failed"])
    /\ UNCHANGED <<orders, movements, faults, clients, deployment, office>>

\* catch: session.abortTransaction(), log, rethrow
TxAbort(c) ==
    LET me == call[c]
    IN
    /\ me.pc = "txAbort"
    /\ log' = log \cup {[call |-> c, message |-> "Transaction failed and rolled back",
                         product |-> "-"]}
    /\ Put(c, [me EXCEPT !.tx = noTx, !.pc = "done", !.result = "failed"])
    /\ UNCHANGED <<products, orders, movements, faults, clients, deployment, office>>


(***************************************************************************)
(* createWithAtomicOps                                                     *)
(***************************************************************************)
\* the catch block is entered with error err: it is logged, and the loop over
\* updatedProducts starts; with nothing to restore the error is rethrown at once
Catch(c, rec, err) ==
    /\ log' = log \cup {[call |-> c, product |-> "-",
                         message |-> "Order creation failed, attempting to rollback stock"]}
    /\ IF rec.updatedProducts = <<>>
       THEN Throw(c, rec, err)
       ELSE Put(c, [rec EXCEPT !.pc = "rollback", !.r = 1, !.error = err])

\* a reservation loop that leaves after its first line
AtomicReserveFirstOnly(c) ==
    LET me   == call[c]
        item == me.items[me.k]
        p    == item.product
    IN
    /\ me.pc = "reserve"
    /\ IF p \in DOMAIN products /\ Sufficient(products[p].stock, item.quantity)
       THEN /\ ~HeldByOther(c, p)
            /\ products' = [products EXCEPT ![p].stock = @ - item.quantity,
                                            ![p].version = @ + 1]
            /\ Put(c, [me EXCEPT
                    !.updatedProducts = Append(@, [product |-> p,
                                                   quantity |-> item.quantity]),
                    !.k  = 1,
                    !.pc = "saveOrder"])
       ELSE /\ Put(c, [me EXCEPT !.pc = "readBack"])
            /\ UNCHANGED products
    /\ UNCHANGED <<orders, movements, log, faults, clients, deployment, office>>

\* findOneAndUpdate({_id, stock: {$gte: quantity}}, {$inc: {stock: -quantity}})
AtomicReserve(c) ==
    LET me   == call[c]
        item == me.items[me.k]
        p    == item.product
    IN
    /\ me.pc = "reserve"
    /\ IF p \in DOMAIN products /\ Sufficient(products[p].stock, item.quantity)
       THEN /\ ~HeldByOther(c, p)
            /\ products' = [products EXCEPT ![p].stock = @ - item.quantity,
                                            ![p].version = @ + 1]
            /\ Put(c, [me EXCEPT
                    !.updatedProducts = Append(@, [product |-> p,
                                                   quantity |-> item.quantity]),
                    !.k  = IF me.k < Len(me.items) THEN me.k + 1 ELSE 1,
                    !.pc = IF me.k < Len(me.items) THEN "reserve" ELSE "saveOrder"])
       ELSE /\ Put(c, [me EXCEPT !.pc = "readBack"])
            /\ UNCHANGED products
    /\ UNCHANGED <<orders, movements, log, faults, clients, deployment, office>>

\* the conditional update matched nothing: findById(item.product)
AtomicReadBack(c) ==
    LET me   == call[c]
        item == me.items[me.k]
        p    == item.product
    IN
    /\ me.pc = "readBack"
    /\ Catch(c, me, IF p \notin DOMAIN products
                    THEN [kind |-> "NotFound", product |-> p]
                    ELSE [kind |-> "InsufficientStock", product |-> p,
                          available |-> products[p].stock,
                          required |-> item.quantity])
    /\ UNCHANGED <<products, orders, movements, faults, clients, deployment, office>>

\* new this.orderModel(orderData).save()
SaveOrder(c) ==
    LET me == call[c]
    IN
    /\ me.pc = "saveOrder"
    /\ \/ /\ orders' = orders \cup {OrderDocument(c)}
          /\ Put(c, [me EXCEPT !.k = 1, !.pc = "recordMovement"])
          /\ UNCHANGED <<log, faults>>
       \/ /\ faults > 0
          /\ faults' = faults - 1
          /\ Catch(c, me, [kind |-> "DbError", op |-> "saveOrder"])
          /\ UNCHANGED orders
    /\ UNCHANGED <<products, movements, clients, deployment, office>>

\* stockService.recordMovement: findById, then save
RecordMovement(c) ==
    LET me == call[c]
        p  == me.items[me.k].product
    IN
    /\ me.pc = "recordMovement"
    /\ \/ /\ IF p \notin DOMAIN products
             THEN /\ Catch(c, me, [kind |-> "NotFound", product |-> p])
                  /\ UNCHANGED movements
             ELSE /\ movements' = movements \cup {MovementDocument(c, me.k)}
                  /\ IF me.k < Len(me.items)
                     THEN Put(c, [me EXCEPT !.k = me.k + 1])
                     ELSE Put(c, [me EXCEPT !.pc = "done", !.result = "created"])
                  /\ UNCHANGED log
          /\ UNCHANGED faults
       \/ /\ faults > 0
          /\ faults' = faults - 1
          /\ Catch(c, me, [kind |-> "DbError", op |-> "recordMovement"])
          /\ UNCHANGED movements
    /\ UNCHANGED <<products, orders, clients, deployment, office>>

\* a rollback that restores each product once, however many lines reserved it
RollbackOncePerProduct(c) ==
    LET me    == call[c]
        entry == me.updatedProducts[me.r]
        p     == entry.product
        seen  == \E i \in 1..(me.r - 1) : me.updatedProducts[i].product = p
        after == IF me.r < Len(me.updatedProducts)
                 THEN [me EXCEPT !.r = me.r + 1]
                 ELSE [me EXCEPT !.pc = "done", !.result = "failed"]
    IN
    /\ me.pc = "rollback"
    /\ \/ /\ ~HeldByOther(c, p)
          /\ products' = IF p \in DOMAIN products /\ ~seen
                         THEN [products EXCEPT ![p].stock = @ + entry.quantity,
                                               ![p].version = @ + 1]
                         ELSE products
          /\ UNCHANGED <<log, faults>>
       \/ /\ faults > 0
          /\ faults' = faults - 1
          /\ log' = log \cup {[call |-> c, product |-> p,
                               message |-> "Failed to rollback stock"]}
          /\ UNCHANGED products
    /\ Put(c, after)
    /\ UNCHANGED <<orders, movements, clients, deployment, office>>

\* a rollback loop that a failed increment ends
RollbackGivesUp(c) ==
    LET me    == call[c]
        entry == me.updatedProducts[me.r]
        p     == entry.product
        after == IF me.r < Len(me.updatedProducts)
                 THEN [me EXCEPT !.r = me.r + 1]
                 ELSE [me EXCEPT !.pc = "done", !.result = "failed"]
    IN
    /\ me.pc = "rollback"
    /\ \/ /\ ~HeldByOther(c, p)
          /\ products' = IF p \in DOMAIN products
                         THEN [products EXCEPT ![p].stock = @ + entry.quantity,
                                               ![p].version = @ + 1]
                         ELSE products
          /\ Put(c, after)
          /\ UNCHANGED <<log, faults>>
       \/ /\ faults > 0
          /\ faults' = faults - 1
          /\ log' = log \cup {[call |-> c, product |-> p,
                               message |-> "Failed to rollback stock"]}
          /\ Put(c, [me EXCEPT !.pc = "done", !.result = "failed"])
          /\ UNCHANGED products
    /\ UNCHANGED <<orders, movements, clients, deployment, office>>

\* catch: findByIdAndUpdate(product._id, {$inc: {stock: quantity}}) for one entry
\* of updatedProducts; a failure is logged and the loop goes on; after the last
\* entry the error is rethrown
Rollback(c) ==
    LET me    == call[c]
        entry == me.updatedProducts[me.r]
        p     == entry.product
        after == IF me.r < Len(me.updatedProducts)
                 THEN [me EXCEPT !.r = me.r + 1]
                 ELSE [me EXCEPT !.pc = "done", !.result = "failed"]
    IN
    /\ me.pc = "rollback"
    /\ \/ /\ ~HeldByOther(c, p)
          /\ products' = IF p \in DOMAIN products
                         THEN [products EXCEPT ![p].stock = @ + entry.quantity,
                                               ![p].version = @ + 1]
                         ELSE products
          /\ UNCHANGED <<log, faults>>
       \/ /\ faults > 0
          /\ faults' = faults - 1
          /\ log' = log \cup {[call |-> c, product |-> p,
                               message |-> "Failed to rollback stock"]}
          /\ UNCHANGED products
    /\ Put(c, after)
    /\ UNCHANGED <<orders, movements, clients, deployment, office>>

(***************************************************************************)
(* The back office: the other service methods, each called by a worker    *)
(* with the arguments of a request and answered with a result and the     *)
(* documents returned.                                                     *)
(***************************************************************************)
EmptyObject == [key \in {} |-> Undefined]

Request(op, product, id, dto) == [op |-> op, product |-> product, id |-> id, dto |-> dto]

\* a request that creates a document is sent while the collection has room
Offered(request) ==
    /\ request.op = "purchases.create" => seq.purchases < MaxPurchases
    /\ request.op = "salesReturns.create" => seq.salesReturns < MaxReturns

\* a request reaches a service method; cost is 1 where requests are counted
Ask(w, requests, cost) ==
    /\ job[w].pc \in {"idle", "returned"}
    /\ seq.requests + cost <= MaxRequests
    /\ \E request \in requests :
          /\ Offered(request)
          /\ job' = [job EXCEPT ![w] = [idleJob EXCEPT !.pc = "called",
                                                       !.op = request.op,
                                                       !.product = request.product,
                                                       !.id = request.id,
                                                       !.dto = request.dto]]
    /\ seq' = [seq EXCEPT !.requests = @ + cost]
    /\ UNCHANGED <<products, orders, movements, call, log, faults, clients,
                   deployment, purchases, salesReturns>>

\* worker w is in the service method op
Called(w, op) == job[w].pc = "called" /\ job[w].op = op

\* the method returns, or throws what result names
Reply(w, result, docs) ==
    job' = [job EXCEPT ![w] = [@ EXCEPT !.pc = "returned", !.result = result,
                                        !.docs = docs]]

\* a filter without the soft-delete condition
ActiveOrNot(doc) == TRUE

\* the filter { deletedAt: { $exists: false } }
Active(doc) == "deletedAt" \notin DOMAIN doc

Without(obj, key) == [f \in DOMAIN obj \ {key} |-> obj[f]]

\* a transaction in progress has written product p
Held(p) ==
    \/ \E c \in Calls : call[c].tx.open /\ p \in call[c].tx.written
    \/ \E w \in Workers : job[w].tx.open /\ p \in job[w].tx.written

\* the soft-delete path of the Product and Order schemas
SoftDeletePaths == {"deletedAt"}

\* the paths of the Product schema that the documents here carry
ProductPaths == {"name", "sellingPrice", "category", "stock", "minStock", "supplier",
                 "description"}

DEFAULT_VALUES_product ==
    [stock |-> Number(0), minStock |-> Number(0), image |-> Str(""),
     barcode |-> Str(""), supplier |-> Str(""), description |-> Str("")]

\* an update document applied to a stored document: the paths the schema
\* declares are set, the others are dropped (strict mode)
SetPaths(doc, data, paths) ==
    [f \in DOMAIN doc |->
        IF f \in paths /\ f \in DOMAIN data THEN data[f].v ELSE doc[f]]

\* { deletedAt: new Date() }
MarkDeleted(doc) ==
    IF "deletedAt" \in SoftDeletePaths THEN With(doc, "deletedAt", Date) ELSE doc

\* { $unset: { deletedAt: 1 } }
Unmark(doc) == Without(doc, "deletedAt")

\* the write makes a new revision of the document of product p: one that no
\* snapshot of a transaction in progress has
Touched(p, doc) ==
    IF \/ \E c \in Calls : /\ call[c].tx.open
                           /\ p \in DOMAIN call[c].tx.snap
                           /\ call[c].tx.snap[p].version = doc.version
       \/ \E w \in Workers : /\ job[w].tx.open
                             /\ p \in DOMAIN job[w].tx.snap
                             /\ job[w].tx.snap[p].version = doc.version
    THEN [doc EXCEPT !.version = @ + 1]
    ELSE doc

\* a product as a query returns it
ProductEntity(p) == [_id |-> p, doc |-> products[p]]

\* this.productModel.find(filter) under a soft-delete condition
FindProducts(live(_), matches(_)) ==
    {ProductEntity(p) : p \in {q \in DOMAIN products : live(products[q]) /\ matches(products[q])}}

\* new RegExp(query, 'i') tested on a text of the catalogue
Contains(text, query) ==
    \/ text = query
    \/ text = "green tea" /\ query \in {"green", "tea"}

(***************************************************************************)
(* ProductsService                                                         *)
(***************************************************************************)
\* create: applyDefaults, new this.productModel(productData).save()
ProductsCreate(w) ==
    LET productData == applyDefaults(job[w].dto, DEFAULT_VALUES_product)
        p == job[w].product
    IN
    /\ Called(w, "products.create")
    /\ p \notin DOMAIN products
    /\ seq.products = 0
    /\ products' = [q \in DOMAIN products \cup {p} |->
                      IF q = p
                      THEN [name |-> productData.name.v,
                            sellingPrice |-> productData.sellingPrice.v,
                            category |-> productData.category.v,
                            stock |-> productData.stock.v,
                            minStock |-> productData.minStock.v,
                            supplier |-> productData.supplier.v,
                            description |-> productData.description.v,
                            version |-> 0]
                      ELSE products[q]]
    /\ seq' = [seq EXCEPT !.products = @ + 1]
    /\ Reply(w, "ok", {[_id |-> p, doc |-> products'[p]]})
    /\ UNCHANGED <<orders, movements, call, log, faults, clients, deployment,
                   purchases, salesReturns>>

\* find({ deletedAt: { $exists: false } })
ProductsFindAll(w) ==
    /\ Called(w, "products.findAll")
    /\ Reply(w, "ok", FindProducts(Active, LAMBDA d : TRUE))
    /\ UNCHANGED <<products, orders, movements, call, log, faults, clients,
                   deployment, purchases, salesReturns, seq>>

\* findOne({ _id, deletedAt: { $exists: false } })
ProductsFindOne(w) ==
    LET p == job[w].product
    IN
    /\ Called(w, "products.findOne")
    /\ IF p \in DOMAIN products /\ Active(products[p])
       THEN Reply(w, "ok", {ProductEntity(p)})
       ELSE Reply(w, "NotFound", {})
    /\ UNCHANGED <<products, orders, movements, call, log, faults, clients,
                   deployment, purchases, salesReturns, seq>>

\* search: a blank query is findAll; otherwise the regular expression on
\* name, description, category and supplier
ProductsSearch(w) ==
    LET query == job[w].dto.query.v
    IN
    /\ Called(w, "products.search")
    /\ Reply(w, "ok",
             IF query = "" THEN FindProducts(Active, LAMBDA d : TRUE)
             ELSE FindProducts(Active,
                               LAMBDA d : \/ Contains(d.name, query)
                                          \/ Contains(d.description, query)
                                          \/ Contains(d.category, query)
                                          \/ Contains(d.supplier, query)))
    /\ UNCHANGED <<products, orders, movements, call, log, faults, clients,
                   deployment, purchases, salesReturns, seq>>

\* find({ category, deletedAt: { $exists: false } })
ProductsFindByCategory(w) ==
    /\ Called(w, "products.findByCategory")
    /\ Reply(w, "ok", FindProducts(Active, LAMBDA d : d.category = job[w].dto.category.v))
    /\ UNCHANGED <<products, orders, movements, call, log, faults, clients,
                   deployment, purchases, salesReturns, seq>>

\* find({ supplier, deletedAt: { $exists: false } })
ProductsFindBySupplier(w) ==
    /\ Called(w, "products.findBySupplier")
    /\ Reply(w, "ok", FindProducts(Active, LAMBDA d : d.supplier = job[w].dto.supplier.v))
    /\ UNCHANGED <<products, orders, movements, call, log, faults, clients,
                   deployment, purchases, salesReturns, seq>>

\* find({ deletedAt: { $exists: false }, $expr: { $lte: ['$stock', '$minStock'] } })
ProductsFindLowStock(w) ==
    /\ Called(w, "products.findLowStock")
    /\ Reply(w, "ok", FindProducts(Active, LAMBDA d : d.stock <= d.minStock))
    /\ UNCHANGED <<products, orders, movements, call, log, faults, clients,
                   deployment, purchases, salesReturns, seq>>

\* update: findOneAndUpdate({ _id, deletedAt: { $exists: false } }, productData)
ProductsUpdate(w) ==
    LET p == job[w].product
        productData == applyDefaults(job[w].dto, DEFAULT_VALUES_product)
    IN
    /\ Called(w, "products.update")
    /\ IF p \in DOMAIN products /\ Active(products[p])
       THEN /\ ~Held(p)
            /\ products' = [products EXCEPT ![p] =
                               Touched(p, SetPaths(@, productData, ProductPaths))]
            /\ Reply(w, "ok", {[_id |-> p, doc |-> products'[p]]})
       ELSE /\ Reply(w, "NotFound", {})
            /\ UNCHANGED products
    /\ UNCHANGED <<orders, movements, call, log, faults, clients, deployment,
                   purchases, salesReturns, seq>>

\* remove: findByIdAndUpdate(id, { deletedAt: new Date() })
ProductsRemove(w) ==
    LET p == job[w].product
    IN
    /\ Called(w, "products.remove")
    /\ IF p \in DOMAIN products
       THEN /\ ~Held(p)
            /\ products' = [products EXCEPT ![p] = Touched(p, MarkDeleted(@))]
            /\ Reply(w, "ok", {[_id |-> p, doc |-> products'[p]]})
       ELSE /\ Reply(w, "NotFound", {})
            /\ UNCHANGED products
    /\ UNCHANGED <<orders, movements, call, log, faults, clients, deployment,
                   purchases, salesReturns, seq>>

\* a restore that brings the document back as it was created
ProductsRestoreAsNew(w) ==
    LET p == job[w].product
    IN
    /\ Called(w, "products.restore")
    /\ IF p \in DOMAIN products
       THEN /\ ~Held(p)
            /\ products' = [products EXCEPT ![p] =
                               Touched(p, [Unmark(@) EXCEPT !.description = ""])]
            /\ Reply(w, "ok", {[_id |-> p, doc |-> products'[p]]})
       ELSE /\ Reply(w, "NotFound", {})
            /\ UNCHANGED products
    /\ UNCHANGED <<orders, movements, call, log, faults, clients, deployment,
                   purchases, salesReturns, seq>>

\* restore: findByIdAndUpdate(id, { $unset: { deletedAt: 1 } })
ProductsRestore(w) ==
    LET p == job[w].product
    IN
    /\ Called(w, "products.restore")
    /\ IF p \in DOMAIN products
       THEN /\ ~Held(p)
            /\ products' = [products EXCEPT ![p] = Touched(p, Unmark(@))]
            /\ Reply(w, "ok", {[_id |-> p, doc |-> products'[p]]})
       ELSE /\ Reply(w, "NotFound", {})
            /\ UNCHANGED products
    /\ UNCHANGED <<orders, movements, call, log, faults, clients, deployment,
                   purchases, salesReturns, seq>>

\* a purge that skips what is marked as deleted
ProductsHardDeleteActiveOnly(w) ==
    LET p == job[w].product
    IN
    /\ Called(w, "products.hardDelete")
    /\ IF p \in DOMAIN products /\ Active(products[p])
       THEN /\ ~Held(p)
            /\ products' = [q \in DOMAIN products \ {p} |-> products[q]]
            /\ Reply(w, "ok", {ProductEntity(p)})
       ELSE /\ Reply(w, "NotFound", {})
            /\ UNCHANGED products
    /\ UNCHANGED <<orders, movements, call, log, faults, clients, deployment,
                   purchases, salesReturns, seq>>

\* hardDelete: findByIdAndDelete(id)
ProductsHardDelete(w) ==
    LET p == job[w].product
    IN
    /\ Called(w, "products.hardDelete")
    /\ IF p \in DOMAIN products
       THEN /\ ~Held(p)
            /\ products' = [q \in DOMAIN products \ {p} |-> products[q]]
            /\ Reply(w, "ok", {ProductEntity(p)})
       ELSE /\ Reply(w, "NotFound", {})
            /\ UNCHANGED products
    /\ UNCHANGED <<orders, movements, call, log, faults, clients, deployment,
                   purchases, salesReturns, seq>>

(***************************************************************************)
(* OrdersService: the methods beside create                                *)
(***************************************************************************)
\* the paths of the Order schema
OrderPaths == {"items", "total", "tax", "discount", "finalTotal", "customerName",
               "timestamp"}

\* an update document applied to a stored order
SetOrderPaths(doc, data) ==
    [f \in DOMAIN doc \cup (DOMAIN data \cap OrderPaths) |->
        IF f \in OrderPaths /\ f \in DOMAIN data THEN data[f] ELSE doc[f]]

\* the orders a find returns under a soft-delete condition
FindOrders(live(_)) == {o \in orders : live(o)}

\* the stored order of id, if any
OrderById(id) == {o \in orders : o._id = id}

\* find({ deletedAt: { $exists: false } })
OrdersFindAll(w) ==
    /\ Called(w, "orders.findAll")
    /\ Reply(w, "ok", FindOrders(Active))
    /\ UNCHANGED <<products, orders, movements, call, log, faults, clients,
                   deployment, purchases, salesReturns, seq>>

\* findOne({ _id, deletedAt: { $exists: false } })
OrdersFindOne(w) ==
    LET found == {o \in OrderById(job[w].id) : Active(o)}
    IN
    /\ Called(w, "orders.findOne")
    /\ Reply(w, IF found = {} THEN "NotFound" ELSE "ok", found)
    /\ UNCHANGED <<products, orders, movements, call, log, faults, clients,
                   deployment, purchases, salesReturns, seq>>

\* update: findOneAndUpdate({ _id, deletedAt: { $exists: false } }, orderData)
OrdersUpdate(w) ==
    LET found == {o \in OrderById(job[w].id) : Active(o)}
        orderData == applyDefaults(job[w].dto, DEFAULT_VALUES_order)
        updated == {SetOrderPaths(o, orderData) : o \in found}
    IN
    /\ Called(w, "orders.update")
    /\ orders' = (orders \ found) \cup updated
    /\ Reply(w, IF found = {} THEN "NotFound" ELSE "ok", updated)
    /\ UNCHANGED <<products, movements, call, log, faults, clients, deployment,
                   purchases, salesReturns, seq>>

\* remove: findByIdAndUpdate(id, { deletedAt: new Date() })
OrdersRemove(w) ==
    LET found == OrderById(job[w].id)
        updated == {MarkDeleted(o) : o \in found}
    IN
    /\ Called(w, "orders.remove")
    /\ orders' = (orders \ found) \cup updated
    /\ Reply(w, IF found = {} THEN "NotFound" ELSE "ok", updated)
    /\ UNCHANGED <<products, movements, call, log, faults, clients, deployment,
                   purchases, salesReturns, seq>>

\* restore: findByIdAndUpdate(id, { $unset: { deletedAt: 1 } })
OrdersRestore(w) ==
    LET found == OrderById(job[w].id)
        updated == {Unmark(o) : o \in found}
    IN
    /\ Called(w, "orders.restore")
    /\ orders' = (orders \ found) \cup updated
    /\ Reply(w, IF found = {} THEN "NotFound" ELSE "ok", updated)
    /\ UNCHANGED <<products, movements, call, log, faults, clients, deployment,
                   purchases, salesReturns, seq>>

\* hardDelete: findByIdAndDelete(id)
OrdersHardDelete(w) ==
    LET found == OrderById(job[w].id)
    IN
    /\ Called(w, "orders.hardDelete")
    /\ orders' = orders \ found
    /\ Reply(w, IF found = {} THEN "NotFound" ELSE "ok", found)
    /\ UNCHANGED <<products, movements, call, log, faults, clients, deployment,
                   purchases, salesReturns, seq>>

(***************************************************************************)
(* Stock changes of the back office.  Purchases and sales returns move     *)
(* stock with an unconditional $inc and record a movement for it; each     *)
(* awaited call is a step of the worker.                                   *)
(***************************************************************************)
Job(w, rec) == job' = [job EXCEPT ![w] = rec]

\* the exception reaches the caller of the service method
Fail(w, rec, err) == Job(w, [rec EXCEPT !.pc = "returned", !.result = err, !.docs = {}])

PurchaseId(n) == 100 + n

ReturnId(n) == 200 + n

\* the snapshot of the transaction of worker w
JobSnap(w) == IF job[w].tx.open THEN job[w].tx.snap ELSE products

\* another transaction has written product p
HeldFromJob(w, p) ==
    \/ \E c \in Calls : call[c].tx.open /\ p \in call[c].tx.written
    \/ \E v \in Workers \ {w} : job[v].tx.open /\ p \in job[v].tx.written

\* { $inc: { stock: delta } } on the stored product
Incremented(p, delta) ==
    [products EXCEPT ![p] = Touched(p, [@ EXCEPT !.stock = @ + delta])]

\* the movement document of recordMovement(productId, quantity, type, reason, reference)
OfficeMovement(p, quantity, type, reference) ==
    [_id |-> <<0, seq.movements + 1>>, productId |-> p, quantity |-> quantity,
     type |-> type, reference |-> reference]

\* the $inc or the movement throws: createWithAtomicOps of purchases catches,
\* the other methods let the exception through
Thrown(w, rec, err) ==
    IF rec.op = "purchases.create"
    THEN Job(w, [rec EXCEPT !.pc = "undo", !.result = err])
    ELSE Fail(w, rec, err)

\* productModel.findByIdAndUpdate(productId, { $inc: { stock: delta } }): a
\* product that is gone is not noticed
StockInc(w) ==
    LET me == job[w]
        p  == me.product
    IN
    /\ me.pc = "inc"
    /\ \/ /\ IF p \in DOMAIN products
             THEN /\ ~HeldFromJob(w, p)
                  /\ products' = Incremented(p, me.plan.delta)
             ELSE UNCHANGED products
          /\ Job(w, [me EXCEPT !.pc = "movement"])
          /\ UNCHANGED faults
       \/ /\ faults > 0
          /\ faults' = faults - 1
          /\ Thrown(w, me, "DbError")
          /\ UNCHANGED products
    /\ UNCHANGED <<orders, movements, call, log, clients, deployment,
                   purchases, salesReturns, seq>>

\* stockService.recordMovement: findById of the product, then save
RecordOfficeMovement(w) ==
    LET me == job[w]
        p  == me.product
    IN
    /\ me.pc = "movement"
    /\ \/ /\ IF p \notin DOMAIN products
             THEN /\ Thrown(w, me, "NotFound")
                  /\ UNCHANGED <<movements, seq>>
             ELSE /\ movements' = movements \cup
                         {OfficeMovement(p, me.plan.quantity, me.plan.type, me.id)}
                  /\ seq' = [seq EXCEPT !.movements = @ + 1]
                  /\ Job(w, [me EXCEPT !.pc = me.plan.next])
          /\ UNCHANGED faults
       \/ /\ faults > 0
          /\ faults' = faults - 1
          /\ Thrown(w, me, "DbError")
          /\ UNCHANGED <<movements, seq>>
    /\ UNCHANGED <<products, orders, call, log, clients, deployment,
                   purchases, salesReturns>>

\* what the worker does after the first read: the $inc, the movement and
\* the step after them
Plan(delta, quantity, type, next) ==
    [delta |-> delta, quantity |-> quantity, type |-> type, next |-> next]

(***************************************************************************)
(* PurchasesService                                                        *)
(***************************************************************************)
\* the purchase document of worker w's createPurchaseDto
PurchaseDocument(w) ==
    [_id |-> PurchaseId(seq.purchases + 1), productId |-> job[w].product,
     quantity |-> job[w].dto.quantity.v, supplier |-> "acme"]

\* create: findById(productId), then the probe of the connection
PurchasesCreate(w) ==
    LET me == job[w]
    IN
    /\ Called(w, "purchases.create")
    /\ IF me.product \notin DOMAIN products
       THEN Fail(w, me, "NotFound")
       ELSE \E readyState \in ReadyStates :
               Job(w, [me EXCEPT !.pc = IF SupportsTransactions(readyState)
                                        THEN "txPurchase" ELSE "savePurchase"])
    /\ UNCHANGED <<products, orders, movements, call, log, faults, clients,
                   deployment, purchases, salesReturns, seq>>

\* createWithAtomicOps: createdPurchase.save()
PurchasesSave(w) ==
    LET me  == job[w]
        doc == PurchaseDocument(w)
    IN
    /\ me.pc = "savePurchase"
    /\ purchases' = With(purchases, doc._id, doc)
    /\ seq' = [seq EXCEPT !.purchases = @ + 1]
    /\ Job(w, [me EXCEPT !.pc = "inc", !.id = doc._id, !.docs = {doc},
                         !.plan = Plan(doc.quantity, doc.quantity, "in", "created")])
    /\ UNCHANGED <<products, orders, movements, call, log, faults, clients,
                   deployment, salesReturns>>

\* createWithAtomicOps: return createdPurchase
PurchasesCreated(w) ==
    /\ job[w].pc = "created"
    /\ Job(w, [job[w] EXCEPT !.pc = "returned", !.result = "ok"])
    /\ UNCHANGED <<products, orders, movements, call, log, faults, clients,
                   deployment, purchases, salesReturns, seq>>

\* createWithAtomicOps catch: findByIdAndDelete(createdPurchase._id); throw error
PurchasesUndo(w) ==
    LET me == job[w]
    IN
    /\ me.pc = "undo"
    /\ purchases' = [i \in DOMAIN purchases \ {me.id} |-> purchases[i]]
    /\ Job(w, [me EXCEPT !.pc = "returned", !.docs = {}])
    /\ UNCHANGED <<products, orders, movements, call, log, faults, clients,
                   deployment, salesReturns, seq>>

\* createWithTransaction: purchaseModel.create([purchaseData], { session }),
\* the first operation of the session
PurchasesTxCreate(w) ==
    LET me  == job[w]
        doc == PurchaseDocument(w)
    IN
    /\ me.pc = "txPurchase"
    /\ IF deployment = "standalone"
       THEN /\ Job(w, [me EXCEPT !.pc = "txAbort", !.result = "TransactionsUnsupported"])
            /\ UNCHANGED seq
       ELSE /\ Job(w, [me EXCEPT !.pc = "txInc", !.id = doc._id, !.docs = {doc},
                                 !.tx = [@ EXCEPT !.open = TRUE, !.snap = products]])
            /\ seq' = [seq EXCEPT !.purchases = @ + 1]
    /\ UNCHANGED <<products, orders, movements, call, log, faults, clients,
                   deployment, purchases, salesReturns>>

\* createWithTransaction: findByIdAndUpdate(productId, { $inc: { stock: quantity } }, { session })
PurchasesTxInc(w) ==
    LET me == job[w]
        p  == me.product
    IN
    /\ me.pc = "txInc"
    /\ IF p \notin DOMAIN me.tx.snap
       THEN Job(w, [me EXCEPT !.pc = "txAbort", !.result = "NotFound"])
       ELSE IF \/ HeldFromJob(w, p)
               \/ p \notin DOMAIN products
               \/ products[p].version # me.tx.snap[p].version
       THEN Job(w, [me EXCEPT !.pc = "txAbort", !.result = "WriteConflict"])
       ELSE Job(w, [me EXCEPT
                !.pc = "txMovement",
                !.tx = [@ EXCEPT !.written = @ \cup {p},
                                 !.stock = With(@, p, me.tx.snap[p].stock
                                                         + me.dto.quantity.v)]])
    /\ UNCHANGED <<products, orders, movements, call, log, faults, clients,
                   deployment, purchases, salesReturns, seq>>

\* createWithTransaction: stockService.recordMovementWithSession
PurchasesTxMovement(w) ==
    LET me == job[w]
    IN
    /\ me.pc = "txMovement"
    /\ Job(w, [me EXCEPT
            !.pc = "txCommit",
            !.tx = [@ EXCEPT !.movements =
                       {OfficeMovement(me.product, me.dto.quantity.v, "in", me.id)}]])
    /\ seq' = [seq EXCEPT !.movements = @ + 1]
    /\ UNCHANGED <<products, orders, movements, call, log, faults, clients,
                   deployment, purchases, salesReturns>>

\* createWithTransaction: session.commitTransaction()
PurchasesTxCommit(w) ==
    LET me == job[w]
    IN
    /\ me.pc = "txCommit"
    /\ products' = [p \in DOMAIN products |->
                      IF p \in me.tx.written
                      THEN [products[p] EXCEPT !.stock = me.tx.stock[p],
                                               !.version = @ + 1]
                      ELSE products[p]]
    /\ purchases' = [i \in DOMAIN purchases \cup {d._id : d \in me.docs} |->
                       IF i \in DOMAIN purchases THEN purchases[i]
                       ELSE CHOOSE d \in me.docs : d._id = i]
    /\ movements' = movements \cup me.tx.movements
    /\ Job(w, [me EXCEPT !.pc = "returned", !.result = "ok", !.tx = noTx])
    /\ UNCHANGED <<orders, call, log, faults, clients, deployment, salesReturns, seq>>

\* createWithTransaction catch: session.abortTransaction(); throw error
PurchasesTxAbort(w) ==
    LET me == job[w]
    IN
    /\ me.pc = "txAbort"
    /\ Job(w, [me EXCEPT !.pc = "returned", !.docs = {}, !.tx = noTx])
    /\ UNCHANGED <<products, orders, movements, call, log, faults, clients,
                   deployment, purchases, salesReturns, seq>>

\* updatePurchaseDto.quantity !== undefined && !== existingPurchase.quantity
QuantityChanged(dto, existing) ==
    "quantity" \in DOMAIN dto /\ dto.quantity.v # existing.quantity

\* Math.abs(quantityDifference)
Abs(n) == IF n < 0 THEN -n ELSE n

\* update: findOne({ _id: id, deletedAt: { $exists: false } })
PurchasesUpdate(w) ==
    LET me == job[w]
    IN
    /\ Called(w, "purchases.update")
    /\ IF me.id \notin DOMAIN purchases \/ ~Active(purchases[me.id])
       THEN Fail(w, me, "NotFound")
       ELSE LET existingPurchase == purchases[me.id]
                quantityDifference == me.dto.quantity.v - existingPurchase.quantity
            IN  IF QuantityChanged(me.dto, existingPurchase)
                THEN Job(w, [me EXCEPT
                         !.pc = "inc",
                         !.product = existingPurchase.productId,
                         !.plan = Plan(quantityDifference, Abs(quantityDifference),
                                       IF quantityDifference > 0 THEN "in" ELSE "out",
                                       "writePurchase")])
                ELSE Job(w, [me EXCEPT !.pc = "writePurchase"])
    /\ UNCHANGED <<products, orders, movements, call, log, faults, clients,
                   deployment, purchases, salesReturns, seq>>

\* the paths of the Purchase schema that the documents here carry
PurchasePaths == {"productId", "quantity", "supplier"}

\* update: purchaseModel.findByIdAndUpdate(id, updatePurchaseDto, { new: true })
PurchasesWrite(w) ==
    LET me == job[w]
    IN
    /\ me.pc = "writePurchase"
    /\ IF me.id \in DOMAIN purchases
       THEN /\ purchases' = [purchases EXCEPT ![me.id] = SetPaths(@, me.dto, PurchasePaths)]
            /\ Job(w, [me EXCEPT !.pc = "returned", !.result = "ok",
                                 !.docs = {purchases'[me.id]}])
       ELSE /\ Fail(w, me, "NotFound")
            /\ UNCHANGED purchases
    /\ UNCHANGED <<products, orders, movements, call, log, faults, clients,
                   deployment, salesReturns, seq>>

\* hardDelete: purchaseModel.findById(id)
PurchasesHardDelete(w) ==
    LET me == job[w]
    IN
    /\ Called(w, "purchases.hardDelete")
    /\ IF me.id \notin DOMAIN purchases
       THEN Fail(w, me, "NotFound")
       ELSE LET purchaseToDelete == purchases[me.id]
            IN  Job(w, [me EXCEPT
                    !.pc = "inc",
                    !.product = purchaseToDelete.productId,
                    !.docs = {purchaseToDelete},
                    !.plan = Plan(-purchaseToDelete.quantity, purchaseToDelete.quantity,
                                  "out", "deletePurchase")])
    /\ UNCHANGED <<products, orders, movements, call, log, faults, clients,
                   deployment, purchases, salesReturns, seq>>

\* hardDelete: purchaseModel.findByIdAndDelete(id)
PurchasesDelete(w) ==
    LET me == job[w]
    IN
    /\ me.pc = "deletePurchase"
    /\ purchases' = [i \in DOMAIN purchases \ {me.id} |-> purchases[i]]
    /\ Job(w, [me EXCEPT !.pc = "returned", !.result = "ok"])
    /\ UNCHANGED <<products, orders, movements, call, log, faults, clients,
                   deployment, salesReturns, seq>>

(***************************************************************************)
(* SalesReturnsService                                                     *)
(***************************************************************************)
\* create: new this.salesReturnModel(createSalesReturnDto).save()
SalesReturnsCreate(w) ==
    LET me  == job[w]
        doc == [_id |-> ReturnId(seq.salesReturns + 1), productId |-> me.product,
                quantity |-> me.dto.quantity.v, status |-> me.dto.status.v]
    IN
    /\ Called(w, "salesReturns.create")
    /\ salesReturns' = With(salesReturns, doc._id, doc)
    /\ seq' = [seq EXCEPT !.salesReturns = @ + 1]
    /\ IF doc.status = "approved"
       THEN Job(w, [me EXCEPT !.pc = "inc", !.id = doc._id, !.docs = {doc},
                              !.plan = Plan(doc.quantity, doc.quantity, "in", "created")])
       ELSE Job(w, [me EXCEPT !.pc = "returned", !.result = "ok", !.id = doc._id,
                              !.docs = {doc}])
    /\ UNCHANGED <<products, orders, movements, call, log, faults, clients,
                   deployment, purchases>>

\* updateSalesReturnDto.status || oldStatus
NewStatus(dto, oldStatus) ==
    IF "status" \in DOMAIN dto /\ dto.status.v # "" THEN dto.status.v ELSE oldStatus

\* update: findById(id), then the branch on the change of status
SalesReturnsUpdate(w) ==
    LET me == job[w]
    IN
    /\ Called(w, "salesReturns.update")
    /\ IF me.id \notin DOMAIN salesReturns
       THEN Fail(w, me, "NotFound")
       ELSE LET existingSalesReturn == salesReturns[me.id]
                oldStatus == existingSalesReturn.status
                newStatus == NewStatus(me.dto, oldStatus)
                quantity  == existingSalesReturn.quantity
                going     == [me EXCEPT !.pc = "inc",
                                        !.product = existingSalesReturn.productId]
            IN  IF newStatus # oldStatus /\ newStatus = "approved"
                THEN Job(w, [going EXCEPT
                         !.plan = Plan(quantity, quantity, "in", "writeReturn")])
                ELSE IF newStatus # oldStatus /\ oldStatus = "approved"
                THEN Job(w, [going EXCEPT
                         !.plan = Plan(-quantity, quantity, "out", "writeReturn")])
                ELSE Job(w, [me EXCEPT !.pc = "writeReturn"])
    /\ UNCHANGED <<products, orders, movements, call, log, faults, clients,
                   deployment, purchases, salesReturns, seq>>

\* the paths of the SalesReturn schema that the documents here carry
SalesReturnPaths == {"productId", "quantity", "status"}

\* update: salesReturnModel.findByIdAndUpdate(id, updateSalesReturnDto, { new: true })
SalesReturnsWrite(w) ==
    LET me == job[w]
    IN
    /\ me.pc = "writeReturn"
    /\ IF me.id \in DOMAIN salesReturns
       THEN /\ salesReturns' = [salesReturns EXCEPT ![me.id] =
                                   SetPaths(@, me.dto, SalesReturnPaths)]
            /\ Job(w, [me EXCEPT !.pc = "returned", !.result = "ok",
                                 !.docs = {salesReturns'[me.id]}])
       ELSE /\ Fail(w, me, "NotFound")
            /\ UNCHANGED salesReturns
    /\ UNCHANGED <<products, orders, movements, call, log, faults, clients,
                   deployment, purchases, seq>>

\* remove: findById(id), then the reversal if the return was approved
SalesReturnsRemove(w) ==
    LET me == job[w]
    IN
    /\ Called(w, "salesReturns.remove")
    /\ IF me.id \notin DOMAIN salesReturns
       THEN Fail(w, me, "NotFound")
       ELSE LET returnToDelete == salesReturns[me.id]
            IN  IF returnToDelete.status = "approved"
                THEN Job(w, [me EXCEPT
                         !.pc = "inc",
                         !.product = returnToDelete.productId,
                         !.docs = {returnToDelete},
                         !.plan = Plan(-returnToDelete.quantity, returnToDelete.quantity,
                                       "out", "deleteReturn")])
                ELSE Job(w, [me EXCEPT !.pc = "deleteReturn", !.docs = {returnToDelete}])
    /\ UNCHANGED <<products, orders, movements, call, log, faults, clients,
                   deployment, purchases, salesReturns, seq>>

\* remove: salesReturnModel.findByIdAndDelete(id)
SalesReturnsDelete(w) ==
    LET me == job[w]
    IN
    /\ me.pc = "deleteReturn"
    /\ salesReturns' = [i \in DOMAIN salesReturns \ {me.id} |-> salesReturns[i]]
    /\ Job(w, [me EXCEPT !.pc = "returned", !.result = "ok"])
    /\ UNCHANGED <<products, orders, movements, call, log, faults, clients,
                   deployment, purchases, seq>>

(***************************************************************************)
(* StockMovementsService                                                   *)
(***************************************************************************)
\* the paths of the StockMovement schema that the documents here carry
MovementPaths == {"productId", "quantity", "type", "reference"}

\* the stored movement of id, if any
MovementById(id) == {m \in movements : m._id = id}

\* create: new this.stockMovementModel(createStockMovementDto).save()
StockMovementsCreate(w) ==
    LET me == job[w]
        doc == [_id |-> <<0, seq.movements + 1>>, productId |-> me.product,
                quantity |-> me.dto.quantity.v, type |-> me.dto.type.v,
                reference |-> 0]
    IN
    /\ Called(w, "stockMovements.create")
    /\ movements' = movements \cup {doc}
    /\ seq' = [seq EXCEPT !.movements = @ + 1]
    /\ Job(w, [me EXCEPT !.pc = "returned", !.result = "ok", !.docs = {doc}])
    /\ UNCHANGED <<products, orders, call, log, faults, clients, deployment,
                   purchases, salesReturns>>

\* update: findByIdAndUpdate(id, updateStockMovementDto, { new: true })
StockMovementsUpdate(w) ==
    LET me == job[w]
        found == MovementById(me.dto.movement)
        updated == {SetPaths(m, me.dto.set, MovementPaths) : m \in found}
    IN
    /\ Called(w, "stockMovements.update")
    /\ movements' = (movements \ found) \cup updated
    /\ Job(w, [me EXCEPT !.pc = "returned", !.docs = updated,
                         !.result = IF found = {} THEN "NotFound" ELSE "ok"])
    /\ UNCHANGED <<products, orders, call, log, faults, clients, deployment,
                   purchases, salesReturns, seq>>

\* remove: findByIdAndDelete(id)
StockMovementsRemove(w) ==
    LET me == job[w]
        found == MovementById(me.dto.movement)
    IN
    /\ Called(w, "stockMovements.remove")
    /\ movements' = movements \ found
    /\ Job(w, [me EXCEPT !.pc = "returned", !.docs = found,
                         !.result = IF found = {} THEN "NotFound" ELSE "ok"])
    /\ UNCHANGED <<products, orders, call, log, faults, clients, deployment,
                   purchases, salesReturns, seq>>

\* no id given out, no request counted
NoIds == [products |-> 0, purchases |-> 0, salesReturns |-> 0, movements |-> 0,
          requests |-> 0]

\* the back office at rest, with nothing purchased or returned yet
EmptyOffice == /\ purchases = <<>>
               /\ salesReturns = <<>>
               /\ job = [w \in Workers |-> idleJob]
               /\ seq = NoIds

EmptyDb == /\ orders = {}
           /\ movements = {}
           /\ log = {}
           /\ call = [c \in Calls |-> idleCall]
           /\ EmptyOffice

\* two clients at once: one with a basket, one with a single line
Init == /\ products = Catalogue
        /\ EmptyDb
        /\ faults = MaxFaults
        /\ deployment = "replicaSet"
        /\ clients = [c \in Calls |-> IF c = 1 THEN "basket" ELSE "single"]

\* one client, sending anything
InitSolo == /\ products = Catalogue
            /\ EmptyDb
            /\ faults = MaxSoloFaults
            /\ deployment = "replicaSet"
            /\ clients = [c \in Calls |-> IF c = 1 THEN "anyone" ELSE "nobody"]

\* one client, sending anything, to a server of either kind
InitDeployed == /\ products = Catalogue
                /\ EmptyDb
                /\ faults = MaxSoloFaults
                /\ deployment \in {"replicaSet", "standalone"}
                /\ clients = [c \in Calls |-> IF c = 1 THEN "anyone" ELSE "nobody"]

Step(c) ==
    \/ Create(c)
    \/ ValidateItem(c)
    \/ TxReserve(c)
    \/ TxReadBack(c)
    \/ TxInsertOrder(c)
    \/ TxRecordMovement(c)
    \/ TxCommit(c)
    \/ TxAbort(c)
    \/ AtomicReserve(c)
    \/ AtomicReadBack(c)
    \/ SaveOrder(c)
    \/ RecordMovement(c)
    \/ Rollback(c)

Next == \E c \in Calls : Step(c)

Spec == Init /\ [][Next]_vars

SpecSolo == InitSolo /\ [][Next]_vars

SpecDeployed == InitDeployed /\ [][Next]_vars

(***************************************************************************)
(* The catalogue: one client ordering one unit while one worker reads,     *)
(* edits, deletes and restores products and orders.                        *)
(***************************************************************************)
\* the products the worker edits: one on sale, one that does not exist
EditedProducts == {"p1", "p4"}

UpdateProductDtos ==
    {EmptyObject, [stock |-> Number(2)], [description |-> Str("tea")]}

CreateProductDtos ==
    {[name |-> Str("salt"), sellingPrice |-> Number(FromMilli(PriceMilli.p3)),
      category |-> Str("food")]}

UpdateOrderDtos == {EmptyObject, [customerName |-> Str("Bob")]}

CatalogueRequests ==
    {Request(op, "-", 0, EmptyObject) :
        op \in {"products.findAll", "products.findLowStock", "orders.findAll"}}
    \cup {Request("products.findOne", p, 0, EmptyObject) : p \in ProductIds}
    \cup {Request(op, p, 0, EmptyObject) :
            op \in {"products.remove", "products.restore", "products.hardDelete"},
            p \in EditedProducts}
    \cup {Request("products.update", p, 0, dto) :
            p \in EditedProducts, dto \in UpdateProductDtos}
    \cup {Request("products.create", "p3", 0, dto) : dto \in CreateProductDtos}
    \cup {Request("products.search", "-", 0, [query |-> Str(q)]) : q \in {"", "tea"}}
    \cup {Request("products.findByCategory", "-", 0, [category |-> Str("drinks")])}
    \cup {Request("products.findBySupplier", "-", 0, [supplier |-> Str("acme")])}
    \cup {Request(op, "-", id, EmptyObject) :
            op \in {"orders.findOne", "orders.remove", "orders.restore",
                    "orders.hardDelete"},
            id \in Calls}
    \cup {Request("orders.update", "-", id, dto) : id \in Calls, dto \in UpdateOrderDtos}

InitCatalogue ==
    /\ products = Catalogue
    /\ orders = {}
    /\ movements = {}
    /\ log = {}
    /\ call = [c \in Calls |-> idleCall]
    /\ purchases = <<>>
    /\ salesReturns = <<>>
    /\ job = [w \in Workers |-> IF w = 1 THEN idleJob ELSE offJob]
    /\ seq = NoIds
    /\ faults = 0
    /\ deployment = "replicaSet"
    /\ clients = [c \in Calls |-> IF c = 1 THEN "one" ELSE "nobody"]

CatalogueStep(w) ==
    \/ Ask(w, CatalogueRequests, 0)
    \/ ProductsCreate(w)
    \/ ProductsFindAll(w)
    \/ ProductsFindOne(w)
    \/ ProductsSearch(w)
    \/ ProductsFindByCategory(w)
    \/ ProductsFindBySupplier(w)
    \/ ProductsFindLowStock(w)
    \/ ProductsUpdate(w)
    \/ ProductsRemove(w)
    \/ ProductsRestore(w)
    \/ ProductsHardDelete(w)
    \/ OrdersFindAll(w)
    \/ OrdersFindOne(w)
    \/ OrdersUpdate(w)
    \/ OrdersRemove(w)
    \/ OrdersRestore(w)
    \/ OrdersHardDelete(w)

NextCatalogue ==
    \/ \E c \in Calls : Step(c)
    \/ \E w \in Workers : CatalogueStep(w)

SpecCatalogue == InitCatalogue /\ [][NextCatalogue]_vars

(***************************************************************************)
(* The stock room: one client ordering the second product while one        *)
(* worker books purchases and sales returns of it and edits the movements. *)
(***************************************************************************)
\* the movements the worker names: the first of the order, the first of the
\* back office
NamedMovements == {<<1, 1>>, <<0, 1>>}

StockRequests ==
    {Request("purchases.create", "p2", 0, [quantity |-> Number(1)])}
    \cup {Request("purchases.update", "-", PurchaseId(1), dto) :
            dto \in {[quantity |-> Number(2)], [supplier |-> Str("zenith")]}}
    \cup {Request("purchases.hardDelete", "-", PurchaseId(1), EmptyObject)}
    \cup {Request("salesReturns.create", "p2", 0,
                  [quantity |-> Number(1), status |-> Str(st)]) :
            st \in {"pending", "approved"}}
    \cup {Request("salesReturns.update", "-", ReturnId(1), [status |-> Str(st)]) :
            st \in {"pending", "approved", "rejected"}}
    \cup {Request("salesReturns.remove", "-", ReturnId(1), EmptyObject)}
    \cup {Request("stockMovements.create", "p2", 0,
                  [quantity |-> Number(q), type |-> Str("in")]) : q \in {0, 1}}
    \cup {Request("stockMovements.update", "-", 0,
                  [movement |-> m, set |-> [quantity |-> Number(9)]]) :
            m \in NamedMovements}
    \cup {Request("stockMovements.remove", "-", 0, [movement |-> m]) :
            m \in NamedMovements}

InitStock ==
    /\ products = Catalogue
    /\ orders = {}
    /\ movements = {}
    /\ log = {}
    /\ call = [c \in Calls |-> idleCall]
    /\ purchases = <<>>
    /\ salesReturns = <<>>
    /\ job = [w \in Workers |-> IF w = 1 THEN idleJob ELSE offJob]
    /\ seq = NoIds
    /\ faults = MaxFaults
    /\ deployment = "replicaSet"
    /\ clients = [c \in Calls |-> IF c = 1 THEN "loose" ELSE "nobody"]

StockStep(w) ==
    \/ Ask(w, StockRequests, 1)
    \/ StockInc(w)
    \/ RecordOfficeMovement(w)
    \/ PurchasesCreate(w)
    \/ PurchasesSave(w)
    \/ PurchasesCreated(w)
    \/ PurchasesUndo(w)
    \/ PurchasesTxCreate(w)
    \/ PurchasesTxInc(w)
    \/ PurchasesTxMovement(w)
    \/ PurchasesTxCommit(w)
    \/ PurchasesTxAbort(w)
    \/ PurchasesUpdate(w)
    \/ PurchasesWrite(w)
    \/ PurchasesHardDelete(w)
    \/ PurchasesDelete(w)
    \/ SalesReturnsCreate(w)
    \/ SalesReturnsUpdate(w)
    \/ SalesReturnsWrite(w)
    \/ SalesReturnsRemove(w)
    \/ SalesReturnsDelete(w)
    \/ StockMovementsCreate(w)
    \/ StockMovementsUpdate(w)
    \/ StockMovementsRemove(w)

NextStock ==
    \/ \E c \in Calls : Step(c)
    \/ \E w \in Workers : StockStep(w)

SpecStock == InitStock /\ [][NextStock]_vars


(***************************************************************************)
(* applyDefaults on its own: a worker calls it with an object and a        *)
(* defaults configuration and gets the result back.                        *)
(***************************************************************************)
\* a key the object does not have
Absent == [t |-> "absent"]

\* the object with the keys of f that are not absent
ObjectOf(f) == [key \in {k \in DOMAIN f : f[k].t # "absent"} |-> f[key]]

\* objects over a key with a text default, one with a number default and one
\* with no default
DefaultsData ==
    {ObjectOf(f) :
        f \in [{"name", "stock", "notes"} ->
                  {Absent, Undefined, Null, Str(""), Str("tea"), Number(Zero),
                   Number(FromInt(2))}]}

DefaultsConfigs ==
    {[name |-> Str("none"), stock |-> Number(FromInt(5)), timestamp |-> [t |-> "function"]],
     [stock |-> Number(Zero)]}

DefaultsRequests ==
    {Request("applyDefaults", "-", 0, [data |-> data, defaults |-> defaults]) :
        data \in DefaultsData, defaults \in DefaultsConfigs}

\* applyDefaults(data, defaults)
ApplyDefaults(w) ==
    /\ Called(w, "applyDefaults")
    /\ Reply(w, "ok", {applyDefaults(job[w].dto.data, job[w].dto.defaults)})
    /\ UNCHANGED <<products, orders, movements, call, log, faults, clients,
                   deployment, purchases, salesReturns, seq>>

InitDefaults ==
    /\ products = Catalogue
    /\ orders = {}
    /\ movements = {}
    /\ log = {}
    /\ call = [c \in Calls |-> idleCall]
    /\ purchases = <<>>
    /\ salesReturns = <<>>
    /\ job = [w \in Workers |-> IF w = 1 THEN idleJob ELSE offJob]
    /\ seq = NoIds
    /\ faults = 0
    /\ deployment = "replicaSet"
    /\ clients = [c \in Calls |-> "nobody"]

NextDefaults ==
    \E w \in Workers : Ask(w, DefaultsRequests, 0) \/ ApplyDefaults(w)

SpecDefaults == InitDefaults /\ [][NextDefaults]_vars

(***************************************************************************)
(* The desk: two workers booking, editing and deleting purchases and       *)
(* sales returns of the second product at the same time; no orders.        *)
(***************************************************************************)
DeskRequests ==
    {Request("purchases.create", "p2", 0, [quantity |-> Number(1)])}
    \cup {Request("purchases.update", "-", PurchaseId(1), [quantity |-> Number(2)])}
    \cup {Request("purchases.hardDelete", "-", PurchaseId(1), EmptyObject)}
    \cup {Request("salesReturns.create", "p2", 0,
                  [quantity |-> Number(1), status |-> Str(st)]) :
            st \in {"pending", "approved"}}
    \cup {Request("salesReturns.update", "-", ReturnId(1), [status |-> Str(st)]) :
            st \in {"pending", "approved"}}
    \cup {Request("salesReturns.update", "-", ReturnId(1), [quantity |-> Number(2)])}
    \cup {Request("salesReturns.remove", "-", ReturnId(1), EmptyObject)}

InitDesk ==
    /\ products = Catalogue
    /\ orders = {}
    /\ movements = {}
    /\ log = {}
    /\ call = [c \in Calls |-> idleCall]
    /\ purchases = <<>>
    /\ salesReturns = <<>>
    /\ job = [w \in Workers |-> idleJob]
    /\ seq = NoIds
    /\ faults = MaxFaults
    /\ deployment = "replicaSet"
    /\ clients = [c \in Calls |-> "nobody"]

DeskStep(w) ==
    \/ Ask(w, DeskRequests, 1)
    \/ StockInc(w)
    \/ RecordOfficeMovement(w)
    \/ PurchasesCreate(w)
    \/ PurchasesSave(w)
    \/ PurchasesCreated(w)
    \/ PurchasesUndo(w)
    \/ PurchasesTxCreate(w)
    \/ PurchasesTxInc(w)
    \/ PurchasesTxMovement(w)
    \/ PurchasesTxCommit(w)
    \/ PurchasesTxAbort(w)
    \/ PurchasesUpdate(w)
    \/ PurchasesWrite(w)
    \/ PurchasesHardDelete(w)
    \/ PurchasesDelete(w)
    \/ SalesReturnsCreate(w)
    \/ SalesReturnsUpdate(w)
    \/ SalesReturnsWrite(w)
    \/ SalesReturnsRemove(w)
    \/ SalesReturnsDelete(w)

NextDesk == \E w \in Workers : DeskStep(w)

SpecDesk == InitDesk /\ [][NextDesk]_vars

(***************************************************************************)
(* What the claims speak of.                                               *)
(***************************************************************************)
\* the units of product p that the lines order
RECURSIVE QtyOf(_, _)
QtyOf(lines, p) ==
    IF lines = <<>> THEN 0
    ELSE (IF Head(lines).product = p THEN Head(lines).quantity ELSE 0)
         + QtyOf(Tail(lines), p)

Created == {c \in Calls : call[c].result = "created"}

\* the units of product p ordered by the invocations 1..n that are in the set cs
RECURSIVE QtyOfCalls(_, _, _)
QtyOfCalls(cs, p, n) ==
    IF n = 0 THEN 0
    ELSE (IF n \in cs THEN QtyOf(call[n].items, p) ELSE 0) + QtyOfCalls(cs, p, n - 1)

Sold(cs, p) == QtyOfCalls(cs, p, NumCalls)

Quiet == \A c \in Calls : call[c].pc \in {"idle", "done"}

Alone(c) == \A d \in Calls \ {c} : call[d].pc = "idle"

RollbackFailureLogged(c) ==
    \E l \in log : l.call = c /\ l.message = "Failed to rollback stock"

MovementsOf(c) == {MovementDocument(c, k) : k \in 1..Len(call[c].items)}

StockAsAtStart == \A p \in DOMAIN Catalogue : products[p].stock = Catalogue[p].stock

\* C1: with positive quantities and a stock that starts >= 0, whatever the
\* interleaving of the invocations on either path, no product's stock is ever
\* negative and the invocations that succeeded never got more units of a product
\* than it had at the start.
C1_NoOversell ==
    \A p \in DOMAIN products :
        /\ products[p].stock >= 0
        /\ Sold(Created, p) <= Catalogue[p].stock

\* two invocations wanted the same product; one got it, the other found too little
C1_Witness ==
    \E c, d \in Calls :
        /\ call[c].result = "created"
        /\ call[d].result = "failed"
        /\ call[d].error.kind = "InsufficientStock"
        /\ QtyOf(call[c].items, call[d].error.product) > 0
        /\ products[call[d].error.product].stock < call[d].error.required

\* C2: on the transactional path nothing is visible before the commit, and a
\* failure (a reservation, the order insert, a movement insert) aborts: while no
\* invocation is on the fallback path, the stock is the initial stock less what
\* the committed invocations ordered, the orders and movements are exactly those
\* of the committed invocations, and a failed invocation holds no transaction and
\* carries the error of the step that failed.
C2_AbortLeavesNothing ==
    (\A c \in Calls : call[c].path # "atomic") =>
        /\ \A p \in DOMAIN products :
              products[p].stock = Catalogue[p].stock - Sold(Created, p)
        /\ orders = {OrderDocument(c) : c \in Created}
        /\ movements = UNION {MovementsOf(c) : c \in Created}
        /\ \A c \in Calls :
              (call[c].path = "transaction" /\ call[c].result = "failed") =>
                  /\ call[c].tx = noTx
                  /\ \/ /\ call[c].error.kind = "InsufficientStock"
                        /\ call[c].error.product = call[c].items[call[c].k].product
                        /\ call[c].error.required = call[c].items[call[c].k].quantity
                        /\ call[c].error.available < call[c].error.required
                     \/ call[c].error.kind \in {"WriteConflict", "NotFound", "DbError"}


\* a transaction that had reserved stock and inserted the order was aborted
\* because a movement insert failed
C2_Witness ==
    /\ \A c \in Calls : call[c].path # "atomic"
    /\ \E c \in Calls :
          /\ call[c].result = "failed"
          /\ call[c].path = "transaction"
          /\ call[c].error.kind = "DbError"
          /\ call[c].error.op = "recordMovement"

\* the fallback invocation c ended in an error raised before the order was saved
FailedBeforeOrder(c) ==
    /\ call[c].path = "atomic"
    /\ call[c].pc = "done"
    /\ call[c].result = "failed"
    /\ \/ call[c].error.kind \in {"InsufficientStock", "NotFound"}
       \/ call[c].error.kind = "DbError" /\ call[c].error.op = "saveOrder"

\* the error of c is the one its failing step raised
OriginalError(c) ==
    LET me == call[c]
    IN  \/ /\ me.error.kind = "InsufficientStock"
           /\ me.error.product = me.items[me.k].product
           /\ me.error.required = me.items[me.k].quantity
        \/ me.error.kind = "NotFound" /\ me.error.product = me.items[me.k].product
        \/ me.error.kind = "DbError"

RECURSIVE TotalOf(_, _, _)
TotalOf(prices, lines, n) ==
    IF n = 0 THEN Zero
    ELSE FAdd(TotalOf(prices, lines, n - 1), FMulInt(prices[n], lines[n].quantity))

\* C4: every persisted order carries the server's amounts: total is the sum of
\* sellingPrice x quantity over its lines at the prices validation read,
\* finalTotal is that total + tax - discount, every line's subtotal is
\* sellingPrice x quantity; what the client sent for them is not what is stored.
C4_PersistedTotalsAreComputed ==
    \A o \in orders :
        LET me    == call[o._id]
            lines == me.dto.items
            total == TotalOf(me.readPrices, lines, Len(lines))
        IN  /\ o.total = Number(total)
            /\ o.finalTotal = Number(FSub(FAdd(total, me.dto.tax.v), DiscountOrZero(me.dto)))
            /\ Len(o.items) = Len(lines)
            /\ \A i \in 1..Len(lines) :
                  o.items[i] = [product  |-> lines[i].product,
                                quantity |-> lines[i].quantity,
                                subtotal |-> FMulInt(me.readPrices[i], lines[i].quantity)]

\* an order was persisted whose client amounts passed the tolerance but differ
\* from the server's, all three of them
C4_Witness ==
    \E o \in orders :
        /\ call[o._id].dto.total # o.total
        /\ call[o._id].dto.finalTotal # o.finalTotal
        /\ call[o._id].dto.items[1].subtotal.v # o.items[1].subtotal

\* the invocation c was rejected by create or by validateAndComputeTotals
RejectedUpFront(c) ==
    /\ call[c].pc = "done"
    /\ call[c].result = "failed"
    /\ call[c].path = "none"

\* C5: an order rejected for having no items, for naming a product that does
\* not exist, or for a total or final total that mismatches, leaves products,
\* orders and movements as they were; and no invocation holds a reservation
\* unless the validation of all its lines has passed.
C5_RejectionTouchesNothing ==
    \A c \in Calls :
        /\ call[c].error.kind \in {"EmptyOrder", "TotalMismatch", "FinalTotalMismatch"}
              => RejectedUpFront(c)
        /\ (RejectedUpFront(c) /\ Alone(c)) =>
              /\ products = Catalogue
              /\ orders = {}
              /\ movements = {}
        /\ (call[c].updatedProducts # <<>> \/ call[c].tx.open) =>
              /\ call[c].path # "none"
              /\ Len(call[c].items) = Len(call[c].dto.items)

\* an order that claims 1.00 for a product that costs 4.99 was rejected
C5_Witness ==
    \E c \in Calls :
        /\ RejectedUpFront(c)
        /\ call[c].error.kind = "TotalMismatch"
        /\ call[c].error.expected = FromMilli(4990)
        /\ call[c].error.received = FromMilli(1000)
        /\ call[c].body.items[1].subtotal = 1000


\* the invocations whose order document is in the collection
Persisted == {o._id : o \in orders}

NoRollbackFailureLogged == \A c \in Calls : ~RollbackFailureLogged(c)

\* C6: whenever no invocation is in progress and no compensation failure has
\* been logged, every product's stock has gone down from its initial value by
\* exactly the units of it on the persisted orders.
C6_StockMatchesPersistedOrders ==
    (Quiet /\ NoRollbackFailureLogged) =>
        \A p \in DOMAIN products :
            Catalogue[p].stock - products[p].stock = Sold(Persisted, p)

\* the fallback invocation c ended because recording a movement failed
MovementFailed(c) ==
    /\ call[c].path = "atomic"
    /\ call[c].pc = "done"
    /\ call[c].error.kind = "DbError"
    /\ call[c].error.op = "recordMovement"

\* C7: on the fallback path, with nothing else going on, once recording a
\* movement has failed after the order was saved, the failure is in the log,
\* the order is still persisted and every product of the order is still down by
\* the quantity ordered.
C7_MovementFailureKeepsOrderAndStock ==
    \A c \in Calls :
        (MovementFailed(c) /\ Alone(c)) =>
            /\ \E l \in log : l.call = c
            /\ OrderDocument(c) \in orders
            /\ \A p \in DOMAIN products :
                  products[p].stock = Catalogue[p].stock - QtyOf(call[c].items, p)

\* C8: at rest and with no infrastructure failure, an invocation that was
\* refused for insufficient stock of a product asked, in all, for more units
\* of it than the invocations that succeeded have left.
C8_RefusedOnlyWhenNoRoom ==
    (Quiet /\ faults = MaxFaults) =>
        \A c \in Calls :
            call[c].error.kind = "InsufficientStock" =>
                Catalogue[call[c].error.product].stock - Sold(Created, call[c].error.product)
                    < QtyOf(call[c].items, call[c].error.product)

\* invocation c carried the order of q units of the first product and nothing else
Ordered(c, q) ==
    /\ call[c].pc # "idle"
    /\ call[c].body = HonestBody(<<<<"p1", q>>>>)

\* stock 5 and two concurrent orders, c for 3 and d for 4 of the product, both
\* finished, nothing else sent and no infrastructure failure
ScenarioA(c, d) ==
    /\ Catalogue["p1"].stock = 5
    /\ c # d
    /\ Ordered(c, 3) /\ call[c].pc = "done"
    /\ Ordered(d, 4) /\ call[d].pc = "done"
    /\ \A e \in Calls \ {c, d} : call[e].pc = "idle"
    /\ faults = MaxFaults

\* of the two, w succeeded and l failed with error kind in kinds
WonLost(w, l, kinds) ==
    /\ call[w].result = "created"
    /\ call[l].result = "failed"
    /\ call[l].error.kind \in kinds

BodyLines(body) == [i \in 1..Len(body.items) |-> <<body.items[i].product, body.items[i].quantity>>]

Distance(a, b) == IF a >= b THEN a - b ELSE b - a

\* how far, in thousandths, the body's total is from the catalogue's
TotalOff(body) == Distance(SumMilli(BodyLines(body)), body.total)

\* how far, in thousandths, the body's final total is from total + tax - discount
FinalTotalOff(body) ==
    Distance(SumMilli(BodyLines(body)) + body.tax
                 - (IF body.discount = <<>> THEN 0 ELSE body.discount[1]),
             body.finalTotal)

\* invocation c got through create and found all its products
Priced(c) ==
    /\ call[c].pc = "done"
    /\ call[c].error.kind \notin {"EmptyOrder", "NotFound"}

PricingRejected(c) == call[c].error.kind \in {"TotalMismatch", "FinalTotalMismatch"}

\* C10: an order whose total or final total is off by more than 0.01 is
\* rejected by the pricing validation, and one whose total and final total are
\* both off by 0.01 or less is not.
C10_ToleranceIsOneCent ==
    \A c \in Calls :
        Priced(c) =>
            /\ (TotalOff(call[c].body) > 10 \/ FinalTotalOff(call[c].body) > 10)
                  => PricingRejected(c)
            /\ (TotalOff(call[c].body) <= 10 /\ FinalTotalOff(call[c].body) <= 10)
                  => ~PricingRejected(c)


\* the order document of invocation c, where c can see it
OrderStored(c) ==
    \/ \E o \in orders : o._id = c
    \/ \E o \in call[c].tx.orders : o._id = c

\* the movement of line k of invocation c, where c can see it
MovementStored(c, k) ==
    \E m \in movements \cup call[c].tx.movements : m._id = <<c, k>>

\* C11: after a createOrder that succeeded with nothing else going on, every
\* product is down by exactly the quantity ordered of it (products not ordered
\* are where they were), and there is exactly one movement per line, of
\* direction out, with the line's product and quantity, referencing the id of
\* the order that was persisted.
C11_SuccessDecrementsAndRecords ==
    \A c \in Calls :
        (call[c].result = "created" /\ Alone(c)) =>
            /\ \A p \in DOMAIN products :
                  products[p].stock = Catalogue[p].stock - QtyOf(call[c].dto.items, p)
            /\ \E o \in orders :
                  /\ orders = {o}
                  /\ Cardinality(movements) = Len(call[c].dto.items)
                  /\ \A k \in 1..Len(call[c].dto.items) :
                        \E m \in movements :
                            /\ m._id = <<c, k>>
                            /\ m.type = "out"
                            /\ m.productId = call[c].dto.items[k].product
                            /\ m.quantity = call[c].dto.items[k].quantity
                            /\ m.reference = o._id

\* an order of two lines for different products has succeeded
C11_Witness ==
    \E c \in Calls :
        /\ call[c].result = "created"
        /\ Alone(c)
        /\ Len(call[c].dto.items) = 2
        /\ call[c].dto.items[1].product # call[c].dto.items[2].product
        /\ Cardinality(movements) = 2

\* the rollback of invocation c failed for product p
RollbackFailedFor(c, p) ==
    \E l \in log : l.call = c /\ l.product = p /\ l.message = "Failed to rollback stock"

\* C12: on the fallback path with nothing else going on, when a compensating
\* increment has failed, the failure is in the log, the call has ended with the
\* error that started the compensation, and every product whose increment did
\* not fail is back at its stock.
C12_CompensationFailureSwallowed ==
    \A c \in Calls :
        (call[c].path = "atomic" /\ call[c].pc = "done" /\ Alone(c)
            /\ RollbackFailureLogged(c)) =>
            /\ call[c].result = "failed"
            /\ OriginalError(c)
            /\ call[c].error.kind = "DbError"
                  => call[c].error.op \in {"saveOrder", "recordMovement"}
            /\ \A p \in DOMAIN products :
                  ~RollbackFailedFor(c, p) => products[p].stock = Catalogue[p].stock

\* two products were reserved, the increment of the first failed and the
\* second is back at its stock
C12_Witness ==
    \E c \in Calls :
        /\ call[c].path = "atomic" /\ call[c].pc = "done" /\ Alone(c)
        /\ Len(call[c].updatedProducts) = 2
        /\ RollbackFailedFor(c, call[c].updatedProducts[1].product)
        /\ ~RollbackFailedFor(c, call[c].updatedProducts[2].product)
        /\ products[call[c].updatedProducts[2].product].stock
              = Catalogue[call[c].updatedProducts[2].product].stock
        /\ products[call[c].updatedProducts[1].product].stock
              < Catalogue[call[c].updatedProducts[1].product].stock

\* the lines of the request of invocation c
Lines(c) == IF call[c].pc = "idle" THEN <<>> ELSE call[c].dto.items

\* the lines 1..n of the request of invocation c
FirstLines(c, n) == SubSeq(Lines(c), 1, n)

\* C13: within one invocation, nothing is reserved before all lines are
\* validated; lines are reserved in the order of the request; the order is not
\* stored before every line is reserved; no movement is stored before the
\* order, and movements are stored in the order of the lines.
C13_StepsInOrder ==
    \A c \in Calls :
        LET me == call[c]
        IN  /\ me.pc \in {"idle", "validate"} =>
                  /\ me.updatedProducts = <<>>
                  /\ ~me.tx.open
                  /\ ~OrderStored(c)
            /\ (me.updatedProducts # <<>> \/ me.tx.open) =>
                  Len(me.items) = Len(Lines(c))
            /\ \A i \in 1..Len(me.updatedProducts) :
                  /\ i <= Len(Lines(c))
                  /\ me.updatedProducts[i].product = Lines(c)[i].product
                  /\ me.updatedProducts[i].quantity = Lines(c)[i].quantity
            /\ (me.tx.open /\ me.pc = "txReserve") =>
                  \A p \in me.tx.written :
                      me.tx.stock[p] = me.tx.snap[p].stock - QtyOf(FirstLines(c, me.k - 1), p)
            /\ OrderStored(c) =>
                  /\ me.path = "atomic" => Len(me.updatedProducts) = Len(Lines(c))
                  /\ me.tx.open =>
                        \A i \in 1..Len(Lines(c)) :
                            LET p == Lines(c)[i].product
                            IN  /\ p \in me.tx.written
                                /\ me.tx.stock[p]
                                      = me.tx.snap[p].stock - QtyOf(Lines(c), p)
            /\ \A k \in 1..Len(Lines(c)) :
                  MovementStored(c, k) =>
                      /\ OrderStored(c)
                      /\ \A j \in 1..(k - 1) : MovementStored(c, j)

\* an order of two lines is stored, with the movement of its first line and
\* not yet that of its second
C13_Witness ==
    \E c \in Calls :
        /\ Len(Lines(c)) = 2
        /\ OrderStored(c)
        /\ MovementStored(c, 1)
        /\ ~MovementStored(c, 2)


\* C14: an invocation that got past validation on a connection that cannot
\* provide transactions (a standalone server) is on the fallback path.
C14_FallbackWhenNoTransactions ==
    \A c \in Calls :
        (deployment = "standalone" /\ call[c].path # "none") => call[c].path = "atomic"


\* invocation c of createOrder takes a step of its conditional decrement, its
\* compensating increment or its commit
LedgerStep(c) ==
    /\ call[c].pc \in {"reserve", "rollback", "txCommit"}
    /\ call'[c] # call[c]

\* C16: a step changes the stock of a product only if it is a conditional
\* decrement or an increment of createOrder; in particular a product update
\* whose payload has no stock leaves the stock as it is.
C16_StockChangesOnlyByLedger ==
    [][\A p \in DOMAIN products \cap DOMAIN products' :
          products'[p].stock # products[p].stock => \E c \in Calls : LedgerStep(c)]_vars


\* the document carries a deletion timestamp
SoftDeleted(doc) == "deletedAt" \in DOMAIN doc

\* worker w returns from the service method op in this step
Returns(w, op) == job[w].pc = "called" /\ job[w].op = op /\ job'[w].pc = "returned"

ProductReads ==
    {"products.findAll", "products.findOne", "products.search",
     "products.findByCategory", "products.findBySupplier", "products.findLowStock"}

OrderReads == {"orders.findAll", "orders.findOne"}

\* no answer of a read holds a soft-deleted entity
ReadsHideSoftDeleted ==
    \A w \in Workers :
        job[w].pc = "returned" =>
            /\ job[w].op \in ProductReads => \A e \in job[w].docs : ~SoftDeleted(e.doc)
            /\ job[w].op \in OrderReads => \A o \in job[w].docs : ~SoftDeleted(o)

\* an update of a soft-deleted product or order throws NotFound and leaves
\* the collections as they are
UpdateOfSoftDeletedFails ==
    \A w \in Workers :
        /\ (/\ Returns(w, "products.update")
            /\ job[w].product \in DOMAIN products
            /\ SoftDeleted(products[job[w].product]))
              => /\ job'[w].result = "NotFound"
                 /\ UNCHANGED <<products, orders, movements>>
        /\ (/\ Returns(w, "orders.update")
            /\ \E o \in orders : o._id = job[w].id /\ SoftDeleted(o))
              => /\ job'[w].result = "NotFound"
                 /\ UNCHANGED <<products, orders, movements>>

SameFields(a, b) ==
    /\ DOMAIN a \ {"deletedAt"} = DOMAIN b \ {"deletedAt"}
    /\ \A f \in DOMAIN a \ {"deletedAt", "version"} : a[f] = b[f]

\* the order of id in the collection orders
TheOrder(id, collection) == CHOOSE o \in collection : o._id = id

C15_StockNeverNegative ==
    \A p \in DOMAIN products : products[p].stock >= 0

\* C17: a step takes no movement out of the collection and changes none: the
\* movements there were are there afterwards, with their quantity, direction
\* and reference.
C17_MovementsAreKept ==
    [][\A m \in movements :
          \E n \in movements' :
              /\ n._id = m._id
              /\ n.quantity = m.quantity
              /\ n.type = m.type
              /\ n.reference = m.reference]_vars

\* C18: every movement in the collection has a quantity of at least one.
C18_MovementQuantitiesPositive ==
    \A m \in movements : m.quantity > 0

\* the product that the step of call c looks up, if it looks one up
LookedUp(c) ==
    IF call[c].pc = "validate" THEN {call[c].dto.items[call[c].k].product}
    ELSE IF call[c].pc \in {"reserve", "txReserve"} THEN {call[c].items[call[c].k].product}
    ELSE {}

\* C21: when a step of createOrder looks up a product that is soft-deleted,
\* in the validation loop or in the conditional decrement, the call is on its
\* way out with product-not-found and the product's stock is as it was.
C21_OrdersRejectSoftDeleted ==
    [][\A c \in Calls : \A p \in LookedUp(c) \cap DOMAIN products :
          (call'[c] # call[c] /\ SoftDeleted(products[p]))
              => /\ call'[c].error.kind = "NotFound"
                 /\ products'[p].stock = products[p].stock]_vars

\* the methods that address one entity by its id
ById(collection) ==
    {collection \o "." \o op : op \in {"findOne", "update", "remove", "restore", "hardDelete"}}

\* the life of product p over one step
ProductLifecycle(p) ==
    /\ \A w \in Workers :
          /\ (Returns(w, "products.remove") /\ job[w].product = p /\ p \in DOMAIN products)
                => /\ p \in DOMAIN products'
                   /\ SoftDeleted(products'[p])
                   /\ SameFields(products[p], products'[p])
          /\ (Returns(w, "products.restore") /\ job[w].product = p /\ p \in DOMAIN products)
                => /\ p \in DOMAIN products'
                   /\ ~SoftDeleted(products'[p])
                   /\ SameFields(products[p], products'[p])
          /\ (Returns(w, "products.hardDelete") /\ job[w].product = p /\ p \in DOMAIN products)
                => /\ p \notin DOMAIN products'
                   /\ job'[w].result = "ok"
          /\ (\E op \in ById("products") : Returns(w, op) /\ job[w].product = p
                                           /\ p \notin DOMAIN products)
                => /\ job'[w].result = "NotFound"
                   /\ job'[w].docs = {}
    /\ (p \notin DOMAIN products /\ p \in DOMAIN products')
          => /\ p \notin DOMAIN Catalogue
             /\ seq.products = 0
             /\ \E w \in Workers : Returns(w, "products.create")

\* the life of the order of id over one step
OrderLifecycle(id) ==
    /\ \A w \in Workers :
          /\ (Returns(w, "orders.remove") /\ job[w].id = id /\ OrderById(id) # {})
                => /\ OrderById(id)' # {}
                   /\ SoftDeleted(TheOrder(id, orders'))
                   /\ SameFields(TheOrder(id, orders), TheOrder(id, orders'))
          /\ (Returns(w, "orders.restore") /\ job[w].id = id /\ OrderById(id) # {})
                => /\ OrderById(id)' # {}
                   /\ ~SoftDeleted(TheOrder(id, orders'))
                   /\ SameFields(TheOrder(id, orders), TheOrder(id, orders'))
          /\ (Returns(w, "orders.hardDelete") /\ job[w].id = id /\ OrderById(id) # {})
                => /\ OrderById(id)' = {}
                   /\ job'[w].result = "ok"
          /\ (\E op \in ById("orders") : Returns(w, op) /\ job[w].id = id
                                         /\ OrderById(id) = {})
                => /\ job'[w].result = "NotFound"
                   /\ job'[w].docs = {}
    /\ (OrderById(id) = {} /\ OrderById(id)' # {})
          => /\ call[id].pc \in {"saveOrder", "txCommit"}
             /\ call'[id].pc \notin {"idle", "validate", "reserve", "txReserve",
                                     "saveOrder", "txInsertOrder"}

Wanted(c) == {Lines(c)[i].product : i \in 1..Len(Lines(c))}

\* no two calls name a product in common
Disjoint == \A c \in Calls : \A d \in Calls \ {c} : Wanted(c) \cap Wanted(d) = {}

\* what is stored for call c: its order, its movements, its log lines
StoredFor(c) ==
    [order |-> OrderById(c),
     movements |-> {m \in movements : m._id[1] = c},
     log |-> {l \in log : l.call = c}]

\* what call c reads of the database and finds there is what c alone has
\* written: its products are not held, their revision is the one of c's
\* snapshot, and their stock is the initial one less what c has taken
SoloView(c) ==
    LET me == call[c]
    IN
    /\ me.error.kind # "WriteConflict"
    /\ \A p \in Wanted(c) \cap DOMAIN products :
          /\ ~HeldByOther(c, p)
          /\ (me.tx.open /\ p \in DOMAIN me.tx.snap)
                => products[p].version = me.tx.snap[p].version
          /\ (me.pc = "done" /\ me.result = "created")
                => products[p].stock = Catalogue[p].stock - QtyOf(me.items, p)
          /\ (me.pc = "done" /\ me.result = "failed" /\ ~RollbackFailureLogged(c))
                => products[p].stock = Catalogue[p].stock
    /\ me.error.kind = "InsufficientStock"
          => /\ me.error.available =
                    Catalogue[me.error.product].stock
                    - QtyOf(SubSeq(me.items, 1, me.k - 1), me.error.product)
             /\ me.error.available < me.error.required

\* C23: while the calls name disjoint sets of products, a step of one call
\* leaves the other call, the documents of its products and what is stored
\* for it as they were, and every call sees of its products what it would see
\* alone: it never waits for or conflicts with the other, it succeeds with
\* exactly its own units taken from the initial stock, and it fails for
\* insufficient stock only when the initial stock less its own earlier lines
\* is less than the line requires.
C23_DisjointCallsDoNotInterfere ==
    [][Disjoint' =>
          /\ \A c \in Calls : SoloView(c)'
          /\ \A c \in Calls : \A d \in Calls \ {c} :
                call'[d] # call[d]
                   => /\ call'[c] = call[c]
                      /\ StoredFor(c)' = StoredFor(c)
                      /\ \A p \in Wanted(c) \cap DOMAIN products :
                            /\ p \in DOMAIN products'
                            /\ products'[p] = products[p]]_vars

\* the second call has created its order while the transaction of the first,
\* on another product, is open with a reservation written
C23_Witness ==
    /\ Disjoint
    /\ call[1].tx.open
    /\ call[1].tx.written # {}
    /\ call[2].pc = "done"
    /\ call[2].result = "created"
    /\ call[2].path = "transaction"

\* worker w has returned from the first request of the run, a purchase
\* creation, and no order was sent meanwhile
OnlyPurchaseCreated(w) ==
    /\ job[w].pc = "returned"
    /\ job[w].op = "purchases.create"
    /\ seq.requests = 1
    /\ \A c \in Calls : call[c].pc = "idle"

\* C24: when a purchase creation has returned, on either path, then either it
\* succeeded, the purchase is stored, the stock of its product is up by the
\* purchased quantity and one 'in' movement refers to the purchase, or it
\* failed, no purchase is stored, the stock is as it was and there is no
\* movement.
C24_PurchaseAllOrNothing ==
    \A w \in Workers :
        OnlyPurchaseCreated(w) =>
            LET p == job[w].product
                quantity == job[w].dto.quantity.v
            IN  IF job[w].result = "ok"
                THEN /\ \E i \in DOMAIN purchases :
                           /\ purchases[i].productId = p
                           /\ purchases[i].quantity = quantity
                           /\ \E m \in movements :
                                 /\ m.reference = i
                                 /\ m.type = "in"
                                 /\ m.quantity = quantity
                                 /\ movements = {m}
                     /\ products[p].stock = Catalogue[p].stock + quantity
                ELSE /\ purchases = <<>>
                     /\ products[p].stock = Catalogue[p].stock
                     /\ movements = {}

\* the value is undefined, null or the empty string
Missing(obj, key) ==
    \/ key \notin DOMAIN obj
    \/ obj[key].t = "undefined"
    \/ obj[key].t = "null"
    \/ obj[key].t = "string" /\ obj[key].v = ""

\* C25: the result of applyDefaults has the keys of the input and of the
\* defaults; a key of the defaults whose input value is undefined, null or ''
\* has the default (what the default returns, if it is a function); every
\* other key has the value of the input.
C25_ApplyDefaults ==
    \A w \in Workers :
        (job[w].pc = "returned" /\ job[w].op = "applyDefaults") =>
            \A result \in job[w].docs :
                LET data == job[w].dto.data
                    defaults == job[w].dto.defaults
                IN  /\ DOMAIN result = DOMAIN data \cup DOMAIN defaults
                    /\ \A key \in DOMAIN result :
                          IF key \in DOMAIN defaults /\ Missing(data, key)
                          THEN /\ defaults[key].t = "function" => result[key].t = "date"
                               /\ defaults[key].t # "function" => result[key] = defaults[key]
                          ELSE result[key] = data[key]

\* a call whose input has a zero stock, an empty name and a key without
\* default: the zero and the key are kept, the name and the timestamp filled
C25_Witness ==
    \E w \in Workers :
        /\ job[w].pc = "returned"
        /\ job[w].op = "applyDefaults"
        /\ job[w].dto.data = [name |-> Str(""), stock |-> Number(Zero), notes |-> Undefined]
        /\ job[w].dto.defaults = [name |-> Str("none"), stock |-> Number(FromInt(5)),
                                  timestamp |-> [t |-> "function"]]
        /\ job[w].docs = {[name |-> Str("none"), stock |-> Number(Zero),
                           notes |-> Undefined, timestamp |-> Date]}

\* C26: with the back office at rest, when the createOrder calls have
\* returned, created or failed, no product has more stock than at the start,
\* whatever the quantities of the lines were.
C26_OrdersNeverRaiseStock ==
    (seq.requests = 0 /\ Quiet)
        => \A p \in DOMAIN products : products[p].stock <= Catalogue[p].stock

\* every service method of the back office has returned
OfficeQuiet == \A w \in Workers : job[w].pc \in {"idle", "returned", "off"}

\* no database operation has failed
NoFailure == faults = MaxFaults

\* the units of product p in the documents docs
RECURSIVE UnitsIn(_, _)
UnitsIn(docs, p) ==
    IF docs = {} THEN 0
    ELSE LET d == CHOOSE e \in docs : TRUE
         IN  (IF d.productId = p THEN d.quantity ELSE 0) + UnitsIn(docs \ {d}, p)

\* the units of product p in the sales returns that are approved
ApprovedUnits(p) ==
    UnitsIn({salesReturns[i] : i \in {j \in DOMAIN salesReturns :
                                        salesReturns[j].status = "approved"}}, p)

\* C27: when the sales-return calls made so far have returned, none having
\* met a database failure, and no purchase was booked, the stock of each
\* product is its initial stock plus the quantities of its sales returns that
\* exist with status 'approved'.
C27_ReturnsCreditedOnce ==
    (OfficeQuiet /\ NoFailure /\ seq.purchases = 0)
        => \A p \in DOMAIN products :
              products[p].stock = Catalogue[p].stock + ApprovedUnits(p)

\* the units of product p in the purchases that exist
PurchasedUnits(p) == UnitsIn({purchases[i] : i \in DOMAIN purchases}, p)

\* C28: when the purchase calls made so far have returned, none having met a
\* database failure, and no sales return was booked, the stock of each
\* product is its initial stock plus the current quantities of its purchases
\* that exist.
C28_PurchasesCountedOnce ==
    (OfficeQuiet /\ NoFailure /\ seq.salesReturns = 0)
        => \A p \in DOMAIN products :
              products[p].stock = Catalogue[p].stock + PurchasedUnits(p)

\* C29: an insufficient-stock error reports an available quantity that is
\* less than the required quantity it reports.
C29_ReportedStockIsInsufficient ==
    \A c \in Calls :
        call[c].error.kind = "InsufficientStock"
            => call[c].error.available < call[c].error.required

\* C30: a step in which an order update returns leaves every product and
\* every movement as it was, and leaves every field of the order that the
\* payload does not name (tax, discount, customerName and timestamp among
\* them) with its stored value.
C30_OrderUpdateChangesOnlyPayload ==
    [][\A w \in Workers :
          Returns(w, "orders.update")
             => /\ products' = products
                /\ movements' = movements
                /\ \A o \in OrderById(job[w].id) :
                      /\ OrderById(job[w].id)' # {}
                      /\ \A f \in DOMAIN o \ DOMAIN job[w].dto :
                            TheOrder(job[w].id, orders')[f] = o[f]]_vars

====
